---- MODULE Spec2Model ----
(***************************************************************************)
(* Trade-SmartBot: the strategy engine (strategy.py), the order executor   *)
(* (tradeManager.py) and the reconciliation loop (ui.py checkStrategies,   *)
(* tradeManager.py check_strategies) as a state machine.                   *)
(*                                                                         *)
(* Time is the integer clock `now` (time.time(), in model seconds).        *)
(* Every handler is one atomic action; the exchange gateway is the         *)
(* environment: each of its calls either returns or raises.                *)
(***************************************************************************)
EXTENDS Integers, Sequences, FiniteSets, TLC

\* ------------------------------------------------------------------ bounds
MaxTime == 6
MaxHits == 4
MaxStrategyTime == 2
time_window == 3
strike_limit == 3

Symbols == {"BTC", "ETH"}

VARIABLES
    now,               \* time.time()
    stop_loss_events,  \* ThreeStrikeStrategy.stop_loss_events
    history,           \* timestamps of every record appended since the last reset
    lastCall,          \* the last ThreeStrike call: what was asked, what came back
    hedgeMode,         \* the exchange account's dualSidePosition
    positions,         \* the exchange's position per symbol (fetch_positions)
    position_strategies, \* TradeManager.position_strategies
    lastOp,            \* the executor operation that just returned, and its results
    orderLog,          \* the order submissions that operation made, in order
    symbol_strategy_map, \* MainWindow.symbol_strategy_map: the strategy bound to a symbol
    stopped_positions, \* MarketReversalStrategy.stopped_positions of the bound instance
    detections,        \* the stop-loss detections made in a row on one unchanged position
    evalLog,           \* the strategy evaluations and routed actions of that operation
    position_data,     \* TrailingStopWithPartialProfits.position_data
    strategyCall,      \* the last call of a symbol-bound strategy: inputs, results
    observed,          \* the prices and sides seen since a symbol's tracking began
    open_orders,       \* the exchange's open orders, in scan order (fetch_open_orders)
    orders,            \* TradeManager.orders: the entry orders tracked locally
    bookCall,          \* the last operation on the order book: inputs, results
    workers            \* the should_execute call each worker is in: position, locals

strikeVars == <<now, stop_loss_events, history, lastCall>>
gwVars == <<hedgeMode, positions>>
bindVars == <<symbol_strategy_map, stopped_positions, detections>>
tmVars == <<position_strategies, bindVars>>
obsVars == <<lastOp, orderLog, evalLog>>
stratVars == <<position_data, strategyCall, observed>>
bookVars == <<open_orders, orders, bookCall>>

vars == <<now, stop_loss_events, history, lastCall, hedgeMode, positions,
          position_strategies, lastOp, orderLog, symbol_strategy_map,
          stopped_positions, detections, evalLog, position_data, strategyCall,
          observed, open_orders, orders, bookCall, workers>>

\* the workers that evaluate the breaker, each for its own symbol
Workers == {1, 2}

\* a worker outside should_execute
NoWorkerCall ==
    [pc |-> "idle", hit |-> FALSE, timestamp |-> 0, current_time |-> 0,
     kept |-> <<>>, result |-> FALSE]

NoCall ==
    [op |-> "none", hit |-> FALSE, time |-> 0, result |-> FALSE, before |-> <<>>,
     action |-> "", after_execute |-> FALSE]

\* ------------------------------------------------------ exchange gateway
MaxSize == 2
EntryPrices == {100}
SymbolOrder == <<"BTC", "ETH">>

NoPosition == [side |-> "none", size |-> 0, entry_price |-> 0]

\* the non-zero positions the exchange can report for a symbol
OpenPositionValues ==
    [side : {"long", "short"}, size : 1..MaxSize, entry_price : EntryPrices]

PositionValues == {NoPosition} \cup OpenPositionValues

\* the outcome of one gateway call
Raises == BOOLEAN

\* order parameters (the params dict): a flag is "absent" or its value as the
\* code writes it (True the Python bool, "true" the string); stopPrice 0 is an
\* absent key; other holds the names of the remaining keys
Params(stopPrice, reduceOnly, closePosition, positionSide, other) ==
    [stopPrice |-> stopPrice, reduceOnly |-> reduceOnly,
     closePosition |-> closePosition, positionSide |-> positionSide,
     other |-> other]

\* one order submission as the gateway receives it; role says what the
\* executor submitted it for, raised what the gateway did with it
Submission(api, symbol, type, side, amount, price, params, role, raised) ==
    [api |-> api, symbol |-> symbol, type |-> type, side |-> side,
     amount |-> amount, price |-> price, params |-> params, role |-> role,
     raised |-> raised]

\* a dict as the sequence of its items in insertion order (the order .items()
\* iterates): assigning an existing key keeps its place, a new key goes last
RECURSIVE SetItem(_, _, _)
SetItem(items, key, value) ==
    IF items = <<>> THEN <<[symbol |-> key, strategies |-> value]>>
    ELSE IF Head(items).symbol = key
    THEN <<[symbol |-> key, strategies |-> value]>> \o Tail(items)
    ELSE <<Head(items)>> \o SetItem(Tail(items), key, value)

\* no entry for the symbol in MarketReversalStrategy.stopped_positions
NoStopped == [side |-> "none", exit_price |-> 0, timestamp |-> 0]

\* an action dict as the strategies return it; action "" is the empty dict,
\* a key the dict does not have is "" or 0
Action(action, symbol, side, take_profit) ==
    [action |-> action, symbol |-> symbol, side |-> side, order_type |-> "market",
     take_profit |-> take_profit, amount |-> 0, profit_pct |-> 0]

NoAction == [action |-> "", symbol |-> "", side |-> "", order_type |-> "",
             take_profit |-> 0, amount |-> 0, profit_pct |-> 0]

\* no entry for the symbol in TrailingStopWithPartialProfits.position_data
NoTracking ==
    [entry_price |-> 0, side |-> "none", highest_price |-> 0, lowest_price |-> 0,
     profits_taken |-> <<>>]

\* nothing seen: the symbol has no tracking; stopped: the tracking was removed
\* by execute on a trailing stop and none has begun since; dropped: the profit
\* levels should_execute offered whose execute the caller did not run
NoObserved ==
    [highest |-> 0, lowest |-> 0, sides |-> {}, stopped |-> FALSE, dropped |-> {}]

NoStrategyCall ==
    [strategy |-> "none", op |-> "none", symbol |-> "", position |-> NoPosition,
     stop_loss_hit |-> FALSE, timestamp |-> 0, ticker |-> 0, result |-> FALSE,
     raised |-> FALSE, executed |-> FALSE, action |-> NoAction,
     trailing_stop_hit |-> FALSE, partial_profit |-> NoAction,
     before |-> <<>>, after |-> <<>>, after_stop |-> FALSE,
     observed |-> NoObserved]

\* nothing was asked of the order book
NoBookCall ==
    [name |-> "none", symbol |-> "", order_id |-> 0, result |-> "none",
     outcome |-> "none",
     before |-> <<>>, tracked |-> <<>>, cancels |-> <<>>, scanned |-> FALSE,
     orders_raise |-> FALSE, stop_loss_price |-> 0, take_profit_price |-> 0,
     price |-> 0, raw |-> <<>>, listing |-> <<>>, fetch_raises |-> FALSE]

NoDetection == [symbol |-> "", position |-> NoPosition, stop_loss |-> 0, handed |-> 0]

NoOp ==
    [name |-> "none", symbol |-> "", result |-> "none", sl_result |-> "none",
     tp_result |-> "none", listed |-> <<>>, closes |-> <<>>, hedge |-> FALSE,
     open_before |-> <<>>, list_raises |-> FALSE, entry |-> "none",
     position |-> NoPosition, price |-> 0, stop_loss_pct |-> 0,
     take_profit_pct |-> 0, take_profit |-> 0, outcome |-> "none"]

Bool(b) == IF b THEN "True" ELSE "False"

\* ------------------------------------------------------- TradeManager
\* tradeManager.py:553-564; a failed query is answered False
get_position_mode(hedge, mode_raises) ==
    IF mode_raises THEN FALSE ELSE hedge

\* tradeManager.py:17-73; the listing in exchange order, [] when a fetch raises
get_open_positions(pos, list_raises) ==
    IF list_raises THEN <<>>
    ELSE LET Open(s) == pos[s].side # "none" /\ pos[s].size # 0
         IN  SelectSeq(SymbolOrder, Open)

\* tradeManager.py:75-84
get_position(symbol, pos, list_raises) ==
    IF \E i \in 1..Len(get_open_positions(pos, list_raises)) :
           get_open_positions(pos, list_raises)[i] = symbol
    THEN pos[symbol]
    ELSE NoPosition

PositionSideOf(side) == IF side = "long" THEN "LONG" ELSE "SHORT"

ClosingSide(side) == IF side = "long" THEN "sell" ELSE "buy"

stop_loss_params_without_reduce_only(side, price, is_hedge_mode) ==
    Params(price, "absent", "true",
           IF is_hedge_mode THEN PositionSideOf(side) ELSE "absent", {})

\* tradeManager.py:281-291
stop_loss_params(side, price, is_hedge_mode) ==
    Params(price, "True", "true",
           IF is_hedge_mode THEN PositionSideOf(side) ELSE "absent", {})

\* tradeManager.py:329-339
stop_loss_direct_params(params, price, is_hedge_mode) ==
    Params(price, "true", "absent",
           IF is_hedge_mode /\ params.positionSide # "absent"
           THEN params.positionSide ELSE "absent",
           {"symbol", "side", "type", "quantity", "timeInForce"})

\* tradeManager.py:361-371
take_profit_params(side, price, is_hedge_mode) ==
    Params(price, "True", "true",
           IF is_hedge_mode THEN PositionSideOf(side) ELSE "absent", {})

\* tradeManager.py:409-419
take_profit_direct_params(params, price, is_hedge_mode) ==
    Params(price, "true", "absent",
           IF is_hedge_mode /\ params.positionSide # "absent"
           THEN params.positionSide ELSE "absent",
           {"symbol", "side", "type", "quantity", "timeInForce"})

_place_stop_loss_no_direct(symbol, position, price, is_hedge_mode, raises) ==
    LET sl_side == ClosingSide(position.side)
        params == stop_loss_params(position.side, price, is_hedge_mode)
        A(type, k) == Submission("create_order", symbol, type, sl_side,
                                 position.size, 0, params, "stop_loss", raises[k])
    IN  IF ~raises[1] THEN [log |-> <<A("market", 1)>>, result |-> TRUE]
        ELSE IF ~raises[2]
        THEN [log |-> <<A("market", 1), A("STOP_MARKET", 2)>>, result |-> TRUE]
        ELSE [log |-> <<A("market", 1), A("STOP_MARKET", 2), A("STOP", 3)>>,
              result |-> ~raises[3]]

\* tradeManager.py:272-351; raises[k] says whether the k-th attempt raises
_place_stop_loss(symbol, position, price, is_hedge_mode, raises) ==
    LET sl_side == ClosingSide(position.side)
        params == stop_loss_params(position.side, price, is_hedge_mode)
        direct_params == stop_loss_direct_params(params, price, is_hedge_mode)
        A(type, k) == Submission("create_order", symbol, type, sl_side,
                                 position.size, 0, params, "stop_loss", raises[k])
        D == Submission("fapiPrivatePostOrder", symbol, "STOP_MARKET", sl_side,
                        position.size, 0, direct_params, "stop_loss", raises[4])
    IN  IF ~raises[1] THEN [log |-> <<A("market", 1)>>, result |-> TRUE]
        ELSE IF ~raises[2]
        THEN [log |-> <<A("market", 1), A("STOP_MARKET", 2)>>, result |-> TRUE]
        ELSE IF ~raises[3]
        THEN [log |-> <<A("market", 1), A("STOP_MARKET", 2), A("STOP", 3)>>,
              result |-> TRUE]
        ELSE [log |-> <<A("market", 1), A("STOP_MARKET", 2), A("STOP", 3), D>>,
              result |-> ~raises[4]]

\* tradeManager.py:353-431; the third attempt carries the price as limit price
_place_take_profit(symbol, position, price, is_hedge_mode, raises) ==
    LET tp_side == ClosingSide(position.side)
        params == take_profit_params(position.side, price, is_hedge_mode)
        direct_params == take_profit_direct_params(params, price, is_hedge_mode)
        A(type, limit, k) == Submission("create_order", symbol, type, tp_side,
                                 position.size, limit, params, "take_profit",
                                 raises[k])
        D == Submission("fapiPrivatePostOrder", symbol, "TAKE_PROFIT_MARKET",
                        tp_side, position.size, 0, direct_params, "take_profit",
                        raises[4])
    IN  IF ~raises[1] THEN [log |-> <<A("market", 0, 1)>>, result |-> TRUE]
        ELSE IF ~raises[2]
        THEN [log |-> <<A("market", 0, 1), A("TAKE_PROFIT_MARKET", 0, 2)>>,
              result |-> TRUE]
        ELSE IF ~raises[3]
        THEN [log |-> <<A("market", 0, 1), A("TAKE_PROFIT_MARKET", 0, 2),
                        A("TAKE_PROFIT", price, 3)>>, result |-> TRUE]
        ELSE [log |-> <<A("market", 0, 1), A("TAKE_PROFIT_MARKET", 0, 2),
                        A("TAKE_PROFIT", price, 3), D>>, result |-> ~raises[4]]

\* the four-outcome vectors of one fallback chain
ChainRaises == [1..4 -> Raises]

NoRaises == [k \in 1..4 |-> FALSE]

\* tradeManager.py:157-163; percentages are integers, 0 is None
RiskPrice(entry_price, pct, up) ==
    IF pct = 0 THEN 0
    ELSE IF up THEN (entry_price * (100 + pct)) \div 100
    ELSE (entry_price * (100 - pct)) \div 100

place_order_rolls_back(symbol, side, order_type, amount, price, stop_loss_pct, take_profit_pct, strategies, reduce_only, hedge, gw) ==
    LET is_hedge_mode == get_position_mode(hedge, gw.mode_raises)
        needs_ticker == price = 0 \/ order_type = "market"
        params == Params(0, IF reduce_only THEN "True" ELSE "absent", "absent",
                         IF is_hedge_mode
                         THEN (IF side = "buy" THEN "LONG" ELSE "SHORT")
                         ELSE "absent", {})
        api == IF order_type = "market"
               THEN (IF side = "buy" THEN "create_market_buy_order"
                     ELSE "create_market_sell_order")
               ELSE (IF side = "buy" THEN "create_limit_buy_order"
                     ELSE "create_limit_sell_order")
        entry == Submission(api, symbol, order_type, side, amount,
                            IF order_type = "market" THEN 0 ELSE price,
                            params, "entry", gw.entry = "raise")
        position == gw.readback
        long == position.side = "long"
        sl_price == RiskPrice(position.entry_price, stop_loss_pct, ~long)
        tp_price == RiskPrice(position.entry_price, take_profit_pct, long)
        risk == (stop_loss_pct # 0 \/ take_profit_pct # 0) /\ position.side # "none"
        sl == IF risk /\ sl_price # 0
              THEN _place_stop_loss(symbol, position, sl_price,
                                    get_position_mode(hedge, gw.sl_mode_raises),
                                    gw.sl_raises)
              ELSE [log |-> <<>>, result |-> FALSE]
        tp == IF risk /\ tp_price # 0
              THEN _place_take_profit(symbol, position, tp_price,
                                      get_position_mode(hedge, gw.tp_mode_raises),
                                      gw.tp_raises)
              ELSE [log |-> <<>>, result |-> FALSE]
        Failed(log) == [result |-> FALSE, log |-> log, sl_result |-> "none",
                        tp_result |-> "none", accepted |-> FALSE,
                        strategies |-> <<>>, hedge |-> is_hedge_mode]
    IN  IF needs_ticker /\ gw.ticker_raises THEN Failed(<<>>)
        ELSE IF order_type # "market" /\ price = 0 THEN Failed(<<>>)
        ELSE IF gw.entry = "raise" THEN Failed(<<entry>>)
        ELSE IF gw.entry = "empty" THEN Failed(<<entry>>)
        ELSE [result |-> ~(risk /\ sl_price # 0 /\ ~sl.result),
              log |-> <<entry>> \o sl.log \o tp.log
                      \o (IF risk /\ sl_price # 0 /\ ~sl.result
                          THEN <<Submission(IF side = "buy"
                                            THEN "create_market_sell_order"
                                            ELSE "create_market_buy_order",
                                            symbol, "market",
                                            IF side = "buy" THEN "sell" ELSE "buy",
                                            amount, 0, params, "entry", FALSE)>>
                          ELSE <<>>),
              sl_result |-> IF risk /\ sl_price # 0 THEN Bool(sl.result) ELSE "none",
              tp_result |-> IF risk /\ tp_price # 0 THEN Bool(tp.result) ELSE "none",
              accepted |-> TRUE,
              strategies |-> strategies \o <<"ThreeStrikeStrategy">>,
              hedge |-> is_hedge_mode]

place_order_requested_price(symbol, side, order_type, amount, price, stop_loss_pct, take_profit_pct, strategies, reduce_only, hedge, gw) ==
    LET is_hedge_mode == get_position_mode(hedge, gw.mode_raises)
        needs_ticker == price = 0 \/ order_type = "market"
        params == Params(0, IF reduce_only THEN "True" ELSE "absent", "absent",
                         IF is_hedge_mode
                         THEN (IF side = "buy" THEN "LONG" ELSE "SHORT")
                         ELSE "absent", {})
        api == IF order_type = "market"
               THEN (IF side = "buy" THEN "create_market_buy_order"
                     ELSE "create_market_sell_order")
               ELSE (IF side = "buy" THEN "create_limit_buy_order"
                     ELSE "create_limit_sell_order")
        entry == Submission(api, symbol, order_type, side, amount,
                            IF order_type = "market" THEN 0 ELSE price,
                            params, "entry", gw.entry = "raise")
        position == gw.readback
        market_price == IF needs_ticker THEN gw.last ELSE price
        long == position.side = "long"
        sl_price == RiskPrice(market_price, stop_loss_pct, ~long)
        tp_price == RiskPrice(market_price, take_profit_pct, long)
        risk == (stop_loss_pct # 0 \/ take_profit_pct # 0) /\ position.side # "none"
        sl == IF risk /\ sl_price # 0
              THEN _place_stop_loss(symbol, position, sl_price,
                                    get_position_mode(hedge, gw.sl_mode_raises),
                                    gw.sl_raises)
              ELSE [log |-> <<>>, result |-> FALSE]
        tp == IF risk /\ tp_price # 0
              THEN _place_take_profit(symbol, position, tp_price,
                                      get_position_mode(hedge, gw.tp_mode_raises),
                                      gw.tp_raises)
              ELSE [log |-> <<>>, result |-> FALSE]
        Failed(log) == [result |-> FALSE, log |-> log, sl_result |-> "none",
                        tp_result |-> "none", accepted |-> FALSE,
                        strategies |-> <<>>, hedge |-> is_hedge_mode]
    IN  IF needs_ticker /\ gw.ticker_raises THEN Failed(<<>>)
        ELSE IF order_type # "market" /\ price = 0 THEN Failed(<<>>)
        ELSE IF gw.entry = "raise" THEN Failed(<<entry>>)
        ELSE IF gw.entry = "empty" THEN Failed(<<entry>>)
        ELSE [result |-> TRUE,
              log |-> <<entry>> \o sl.log \o tp.log,
              sl_result |-> IF risk /\ sl_price # 0 THEN Bool(sl.result) ELSE "none",
              tp_result |-> IF risk /\ tp_price # 0 THEN Bool(tp.result) ELSE "none",
              accepted |-> TRUE,
              strategies |-> strategies \o <<"ThreeStrikeStrategy">>,
              hedge |-> is_hedge_mode]

\* tradeManager.py:86-203. gw is what the gateway does during the call:
\* mode_raises, ticker_raises, entry ("ok", "empty" or "raise"), readback (the
\* position get_position reads after the entry), sl_raises, tp_raises.
\* price 0 is None, a percentage 0 is None.
place_order(symbol, side, order_type, amount, price, stop_loss_pct, take_profit_pct, strategies, reduce_only, hedge, gw) ==
    LET is_hedge_mode == get_position_mode(hedge, gw.mode_raises)
        needs_ticker == price = 0 \/ order_type = "market"
        params == Params(0, IF reduce_only THEN "True" ELSE "absent", "absent",
                         IF is_hedge_mode
                         THEN (IF side = "buy" THEN "LONG" ELSE "SHORT")
                         ELSE "absent", {})
        api == IF order_type = "market"
               THEN (IF side = "buy" THEN "create_market_buy_order"
                     ELSE "create_market_sell_order")
               ELSE (IF side = "buy" THEN "create_limit_buy_order"
                     ELSE "create_limit_sell_order")
        entry == Submission(api, symbol, order_type, side, amount,
                            IF order_type = "market" THEN 0 ELSE price,
                            params, "entry", gw.entry = "raise")
        position == gw.readback
        long == position.side = "long"
        sl_price == RiskPrice(position.entry_price, stop_loss_pct, ~long)
        tp_price == RiskPrice(position.entry_price, take_profit_pct, long)
        risk == (stop_loss_pct # 0 \/ take_profit_pct # 0) /\ position.side # "none"
        sl == IF risk /\ sl_price # 0
              THEN _place_stop_loss(symbol, position, sl_price,
                                    get_position_mode(hedge, gw.sl_mode_raises),
                                    gw.sl_raises)
              ELSE [log |-> <<>>, result |-> FALSE]
        tp == IF risk /\ tp_price # 0
              THEN _place_take_profit(symbol, position, tp_price,
                                      get_position_mode(hedge, gw.tp_mode_raises),
                                      gw.tp_raises)
              ELSE [log |-> <<>>, result |-> FALSE]
        Failed(log) == [result |-> FALSE, log |-> log, sl_result |-> "none",
                        tp_result |-> "none", accepted |-> FALSE,
                        strategies |-> <<>>, hedge |-> is_hedge_mode]
    IN  IF needs_ticker /\ gw.ticker_raises THEN Failed(<<>>)
        ELSE IF order_type # "market" /\ price = 0 THEN Failed(<<>>)
        ELSE IF gw.entry = "raise" THEN Failed(<<entry>>)
        ELSE IF gw.entry = "empty" THEN Failed(<<entry>>)
        ELSE [result |-> TRUE,
              log |-> <<entry>> \o sl.log \o tp.log,
              sl_result |-> IF risk /\ sl_price # 0 THEN Bool(sl.result) ELSE "none",
              tp_result |-> IF risk /\ tp_price # 0 THEN Bool(tp.result) ELSE "none",
              accepted |-> TRUE,
              strategies |-> strategies \o <<"ThreeStrikeStrategy">>,
              hedge |-> is_hedge_mode]

\* tradeManager.py:205-270. place_order returns a bool: False returns None at
\* line 212, and for True the test 'id' not in order raises TypeError, which
\* line 268 catches: None again, and lines 214-266 never run.
place_order_with_tp(symbol, side, order_type, amount, price, take_profit, hedge, gw) ==
    LET order == place_order(symbol, side, order_type, amount, price, 0, 0,
                             <<>>, FALSE, hedge, gw)
    IN  [order EXCEPT !.result = FALSE]

close_position_same_side(symbol, pos, hedge, gw) ==
    LET position == get_position(symbol, pos, gw.list_raises)
        is_hedge_mode == get_position_mode(hedge, gw.mode_raises)
        close_side == IF position.side = "long" THEN "buy" ELSE "sell"
        params == IF is_hedge_mode
                  THEN Params(0, "absent", "absent", PositionSideOf(position.side), {})
                  ELSE Params(0, "True", "absent", "absent", {})
        order == Submission(IF close_side = "buy" THEN "create_market_buy_order"
                            ELSE "create_market_sell_order",
                            symbol, "market", close_side, position.size, 0,
                            params, "close", gw.order_raises)
    IN  IF position.side = "none" THEN [result |-> FALSE, log |-> <<>>]
        ELSE [result |-> ~gw.order_raises, log |-> <<order>>]

\* tradeManager.py:470-525. gw: list_raises, mode_raises, order_raises.
close_position(symbol, pos, hedge, gw) ==
    LET position == get_position(symbol, pos, gw.list_raises)
        is_hedge_mode == get_position_mode(hedge, gw.mode_raises)
        close_side == ClosingSide(position.side)
        params == IF is_hedge_mode
                  THEN Params(0, "absent", "absent", PositionSideOf(position.side), {})
                  ELSE Params(0, "True", "absent", "absent", {})
        order == Submission(IF close_side = "buy" THEN "create_market_buy_order"
                            ELSE "create_market_sell_order",
                            symbol, "market", close_side, position.size, 0,
                            params, "close", gw.order_raises)
    IN  IF position.side = "none" THEN [result |-> FALSE, log |-> <<>>]
        ELSE [result |-> ~gw.order_raises, log |-> <<order>>]

\* a market close the gateway accepted takes the position off the exchange
AfterClose(symbol, pos, closed) ==
    IF closed THEN [pos EXCEPT ![symbol] = NoPosition] ELSE pos

CloseOutcomes == [list_raises : Raises, mode_raises : Raises, order_raises : Raises]

RECURSIVE CloseEach_stop_at_failure(_, _, _, _)
CloseEach_stop_at_failure(list, pos, hedge, gws) ==
    IF list = <<>> THEN [results |-> <<>>, log |-> <<>>, positions |-> pos]
    ELSE LET r == close_position(Head(list), pos, hedge, gws[Head(list)])
             rest == IF r.result
                     THEN CloseEach_stop_at_failure(Tail(list),
                              AfterClose(Head(list), pos, r.result), hedge, gws)
                     ELSE [results |-> <<>>, log |-> <<>>, positions |-> pos]
         IN  [results |-> <<[symbol |-> Head(list), result |-> r.result]>>
                              \o rest.results,
              log |-> r.log \o rest.log,
              positions |-> rest.positions]

\* tradeManager.py:531-536, the loop: one close_position per listed position
RECURSIVE CloseEach(_, _, _, _)
CloseEach(list, pos, hedge, gws) ==
    IF list = <<>> THEN [results |-> <<>>, log |-> <<>>, positions |-> pos]
    ELSE LET r == close_position(Head(list), pos, hedge, gws[Head(list)])
             rest == CloseEach(Tail(list), AfterClose(Head(list), pos, r.result),
                               hedge, gws)
         IN  [results |-> <<[symbol |-> Head(list), result |-> r.result]>>
                              \o rest.results,
              log |-> r.log \o rest.log,
              positions |-> rest.positions]

RECURSIVE AllTrue(_)
AllTrue(results) ==
    IF results = <<>> THEN TRUE
    ELSE Head(results).result /\ AllTrue(Tail(results))

\* tradeManager.py:527-540. list_raises: the listing of line 531 fails;
\* gws[s]: what the gateway does during close_position(s).
close_all_positions(pos, hedge, list_raises, gws) ==
    LET listed == get_open_positions(pos, list_raises)
        each == CloseEach(listed, pos, hedge, gws)
    IN  [result |-> AllTrue(each.results), listed |-> listed,
         closes |-> each.results, log |-> each.log, positions |-> each.positions]

\* tradeManager.py:683-803. gw: fetch_raises, sl_raises, tp_raises. A price 0
\* is None. The cancellation of the symbol's open conditional orders (lines
\* 710-721) submits no order and cannot stop what follows.
set_position_sltp(symbol, stop_loss_price, take_profit_price, pos, gw) ==
    LET position == pos[symbol]
        side == position.side
        sl_params == Params(stop_loss_price, "True", "absent", "absent",
                            {"triggerPrice", "stopLossPrice", "type"})
        tp_params == Params(take_profit_price, "True", "absent", "absent",
                            {"triggerPrice", "takeProfitPrice", "type"})
        sl == Submission("create_order", symbol, "stop_market", ClosingSide(side),
                         position.size, 0, sl_params, "stop_loss", gw.sl_raises)
        tp == Submission("create_order", symbol, "take_profit_market",
                         ClosingSide(side), position.size, 0, tp_params,
                         "take_profit", gw.tp_raises)
    IN  IF gw.fetch_raises \/ side = "none" \/ position.size = 0
        THEN [result |-> FALSE, log |-> <<>>, sl_result |-> "none",
              tp_result |-> "none"]
        ELSE [result |-> TRUE,
              log |-> (IF stop_loss_price # 0 THEN <<sl>> ELSE <<>>)
                      \o (IF take_profit_price # 0 THEN <<tp>> ELSE <<>>),
              sl_result |-> IF stop_loss_price # 0 THEN Bool(~gw.sl_raises)
                            ELSE "none",
              tp_result |-> IF take_profit_price # 0 THEN Bool(~gw.tp_raises)
                            ELSE "none"]

\* ------------------------------------------------- ThreeStrikeStrategy
\* strategy.py:141-146, the record appended for a stop_loss_hit context
StrikeRecord(ctx) ==
    [symbol |-> ctx.symbol, timestamp |-> ctx.timestamp,
     side |-> ctx.position.side, size |-> ctx.position.size]

KeepEvent_strict(event, current_time) ==
    current_time - event.timestamp < time_window

\* strategy.py:155, the filter of the list comprehension
KeepEvent(event, current_time) ==
    current_time - event.timestamp <= time_window

\* strategy.py:153-156 (and ui.py:758-761, 815-818)
PruneEvents(events, current_time) ==
    LET Keep(e) == KeepEvent(e, current_time)
    IN  SelectSeq(events, Keep)

LimitReached_off_by_one(n) == n > strike_limit

\* strategy.py:159
LimitReached(n) == n >= strike_limit

ThreeStrike_should_execute_prepends(events, ctx, current_time) ==
    LET appended == IF ctx.stop_loss_hit
                    THEN <<StrikeRecord(ctx)>> \o events
                    ELSE events
        pruned == PruneEvents(appended, current_time)
    IN  [events |-> pruned, result |-> LimitReached(Len(pruned))]

\* strategy.py:132-159; the new record list and the returned value
ThreeStrike_should_execute(events, ctx, current_time) ==
    LET appended == IF ctx.stop_loss_hit
                    THEN Append(events, StrikeRecord(ctx))
                    ELSE events
        pruned == PruneEvents(appended, current_time)
    IN  [events |-> pruned, result |-> LimitReached(Len(pruned))]

ThreeStrike_execute_resets(events) ==
    [action |-> "close_all_positions", events |-> <<>>]

\* strategy.py:161-166; the returned action and the record list after the call
ThreeStrike_execute(events) ==
    [action |-> "close_all_positions", events |-> events]

\* the contexts handed to the breaker in SpecStrike
StrikePositions ==
    [BTC |-> [side |-> "long", size |-> 1], ETH |-> [side |-> "short", size |-> 1]]

Context(s, pos, hit, ts) ==
    [symbol |-> s, position |-> pos, stop_loss_hit |-> hit, timestamp |-> ts]

Init ==
    /\ now = 0
    /\ stop_loss_events = <<>>
    /\ history = <<>>
    /\ lastCall = NoCall
    /\ hedgeMode = FALSE
    /\ positions = [s \in Symbols |-> NoPosition]
    /\ position_strategies = <<>>
    /\ lastOp = NoOp
    /\ orderLog = <<>>
    /\ symbol_strategy_map = [s \in Symbols |-> "none"]
    /\ stopped_positions = [s \in Symbols |-> NoStopped]
    /\ detections = NoDetection
    /\ evalLog = <<>>
    /\ position_data = [s \in Symbols |-> NoTracking]
    /\ strategyCall = NoStrategyCall
    /\ observed = [s \in Symbols |-> NoObserved]
    /\ open_orders = <<>>
    /\ orders = <<>>
    /\ bookCall = NoBookCall
    /\ workers = [w \in Workers |-> NoWorkerCall]

\* the clock advances between calls
Advance ==
    /\ now < MaxTime
    /\ now' = now + 1
    /\ UNCHANGED <<stop_loss_events, history, lastCall, gwVars, tmVars, obsVars, stratVars, bookVars,
                   workers>>

\* one call of ThreeStrikeStrategy.should_execute
ShouldExecute ==
    \E s \in Symbols, hit \in BOOLEAN :
        /\ hit => Len(history) < MaxHits
        /\ LET ctx == Context(s, StrikePositions[s], hit, now)
               r == ThreeStrike_should_execute(stop_loss_events, ctx, now)
           IN  /\ stop_loss_events' = r.events
               /\ history' = IF hit THEN Append(history, now) ELSE history
               /\ lastCall' = [op |-> "should_execute", hit |-> hit, time |-> now,
                               result |-> r.result, before |-> stop_loss_events,
                               action |-> "",
                               after_execute |-> lastCall.op = "execute"]
        /\ UNCHANGED <<now, gwVars, tmVars, obsVars, stratVars, bookVars, workers>>

\* ui.py:802-835 updateStrikeStatus (and ui.py:756-764 showStrikeStatus)
UpdateStrikeStatus ==
    /\ stop_loss_events' = PruneEvents(stop_loss_events, now)
    /\ lastCall' = [op |-> "updateStrikeStatus", hit |-> FALSE, time |-> now,
                    result |-> FALSE, before |-> stop_loss_events,
                    action |-> "", after_execute |-> FALSE]
    /\ UNCHANGED <<now, history, gwVars, tmVars, obsVars, stratVars, bookVars, workers>>

\* ui.py:788-800 resetStrikes
ResetStrikes ==
    /\ stop_loss_events' = <<>>
    /\ history' = <<>>
    /\ lastCall' = [op |-> "resetStrikes", hit |-> FALSE, time |-> now,
                    result |-> FALSE, before |-> stop_loss_events,
                    action |-> "", after_execute |-> FALSE]
    /\ UNCHANGED <<now, gwVars, tmVars, obsVars, stratVars, bookVars, workers>>

\* ThreeStrikeStrategy.execute, which the callers run when should_execute
\* returned true (ui.py:1229-1231, tradeManager.py:671-673)
Execute ==
    /\ lastCall.op = "should_execute"
    /\ lastCall.result
    /\ \E r \in {ThreeStrike_execute(stop_loss_events)} :
          /\ stop_loss_events' = r.events
          /\ lastCall' = [op |-> "execute", hit |-> FALSE, time |-> now,
                          result |-> FALSE, before |-> stop_loss_events,
                          action |-> r.action, after_execute |-> FALSE]
    /\ UNCHANGED <<now, history, gwVars, tmVars, obsVars, stratVars, bookVars,
                   workers>>

NextStrike ==
    \/ Advance \/ ShouldExecute \/ UpdateStrikeStatus \/ ResetStrikes
    \/ Execute

SpecStrike == Init /\ [][NextStrike]_vars

\* ------------------------------------------- the breaker under two workers
\* ThreeStrikeStrategy.should_execute takes no lock: a worker's call is the
\* sequence of its reads and writes of self.stop_loss_events, and the steps
\* of two workers interleave. Worker w evaluates the symbol SymbolOrder[w].

MaxWorkerTime == 4
MaxWorkerHits == 2

\* the clock advances between the workers' steps
WorkerAdvance ==
    /\ now < MaxWorkerTime
    /\ now' = now + 1
    /\ UNCHANGED <<stop_loss_events, history, lastCall, gwVars, tmVars, obsVars,
                   stratVars, bookVars, workers>>

WorkerContext(w, hit, ts) ==
    Context(SymbolOrder[w], StrikePositions[SymbolOrder[w]], hit, ts)

\* strategy.py:135-146: the call begins and appends its record to the list
WorkerAppend(w) ==
    /\ workers[w].pc = "idle"
    /\ \E hit \in BOOLEAN :
          /\ hit => Len(history) < MaxWorkerHits
          /\ stop_loss_events' =
                 IF hit
                 THEN Append(stop_loss_events, StrikeRecord(WorkerContext(w, hit, now)))
                 ELSE stop_loss_events
          /\ history' = IF hit THEN Append(history, now) ELSE history
          /\ workers' = [workers EXCEPT ![w] =
                            [NoWorkerCall EXCEPT !.pc = "clock", !.hit = hit,
                                                 !.timestamp = now]]
    /\ UNCHANGED <<now, lastCall, gwVars, tmVars, obsVars, stratVars, bookVars>>

\* strategy.py:152: current_time = time.time()
WorkerClock(w) ==
    /\ workers[w].pc = "clock"
    /\ workers' = [workers EXCEPT ![w].pc = "filter", ![w].current_time = now]
    /\ UNCHANGED <<strikeVars, gwVars, tmVars, obsVars, stratVars, bookVars>>

\* strategy.py:153-156, the right-hand side: the list comprehension over the
\* list as it is now
WorkerFilter(w) ==
    /\ workers[w].pc = "filter"
    /\ workers' = [workers EXCEPT
                      ![w].pc = "assign",
                      ![w].kept = PruneEvents(stop_loss_events,
                                              workers[w].current_time)]
    /\ UNCHANGED <<strikeVars, gwVars, tmVars, obsVars, stratVars, bookVars>>

\* strategy.py:153, the assignment to self.stop_loss_events
WorkerAssign(w) ==
    /\ workers[w].pc = "assign"
    /\ stop_loss_events' = workers[w].kept
    /\ workers' = [workers EXCEPT ![w].pc = "return", ![w].kept = <<>>]
    /\ UNCHANGED <<now, history, lastCall, gwVars, tmVars, obsVars, stratVars,
                   bookVars>>

\* strategy.py:159: the value returned
WorkerReturn(w) ==
    /\ workers[w].pc = "return"
    /\ workers' = [workers EXCEPT
                      ![w].pc = "done",
                      ![w].result = LimitReached(Len(stop_loss_events))]
    /\ UNCHANGED <<strikeVars, gwVars, tmVars, obsVars, stratVars, bookVars>>

\* both calls have returned; the workers take their next evaluations
WorkersRelease ==
    /\ \A w \in Workers : workers[w].pc = "done"
    /\ workers' = [w \in Workers |-> NoWorkerCall]
    /\ UNCHANGED <<strikeVars, gwVars, tmVars, obsVars, stratVars, bookVars>>

NextWorkers ==
    \/ WorkerAdvance
    \/ \E w \in Workers : WorkerAppend(w)
    \/ \E w \in Workers : WorkerClock(w)
    \/ \E w \in Workers : WorkerFilter(w)
    \/ \E w \in Workers : WorkerAssign(w)
    \/ \E w \in Workers : WorkerReturn(w)
    \/ WorkersRelease

SpecWorkers == Init /\ [][NextWorkers]_vars

\* -------------------------------------------------- executor operations
\* The program is single-threaded: an operation begins when the previous one
\* has returned (Return clears what was observed of it).
Idle == lastOp.name = "none"

Return ==
    /\ ~Idle
    /\ lastOp' = NoOp
    /\ orderLog' = <<>>
    /\ evalLog' = <<>>
    /\ UNCHANGED <<strikeVars, gwVars, tmVars, stratVars, bookVars, workers>>

\* the gateway rejects the first k spellings of a chain and accepts the rest
RejectsFirst(k) == [i \in 1..4 |-> i <= k]

PrefixRaises == {RejectsFirst(k) : k \in 0..4}

\* the failure patterns of the two chains of one place_order call: every
\* pattern when one chain runs, the prefix patterns when both run
ChainPairs(sl, tp) ==
    IF sl # 0 /\ tp # 0 THEN PrefixRaises \X PrefixRaises
    ELSE IF sl # 0 THEN ChainRaises \X {NoRaises}
    ELSE IF tp # 0 THEN {NoRaises} \X ChainRaises
    ELSE {<<NoRaises, NoRaises>>}

Scenario(typ, price, sl, tp, m, tr, e, rb, pr) ==
    [typ |-> typ, price |-> price, sl |-> sl, tp |-> tp, mode_raises |-> m,
     ticker_raises |-> tr, entry |-> e, readback |-> rb, raises |-> pr]

Quiet == <<NoRaises, NoRaises>>

\* what the user asks of place_order and what the gateway does during the
\* call: the ticker or the price check stops it, the entry is refused, the
\* entry is accepted without risk percentages, or with them (ui.py:716-734)
PlaceScenarios ==
    {Scenario("market", 0, 0, 0, FALSE, TRUE, "ok", "none", Quiet),
     Scenario("limit", 0, 0, 0, FALSE, FALSE, "ok", "none", Quiet)}
    \cup {Scenario(t[1], t[2], 0, 0, m, FALSE, e, "none", Quiet) :
            t \in {<<"market", 0>>, <<"limit", 100>>}, m \in Raises,
            e \in {"raise", "empty"}}
    \cup {Scenario(t[1], t[2], 0, 0, m, FALSE, "ok", rb, Quiet) :
            t \in {<<"market", 0>>, <<"limit", 100>>}, m \in Raises,
            rb \in {"none", "long", "short"}}
    \cup UNION {{Scenario("market", 0, pct[1], pct[2], m, FALSE, "ok", rb, pr) :
                    m \in Raises, rb \in {"long", "short"},
                    pr \in ChainPairs(pct[1], pct[2])} :
                pct \in {<<2, 0>>, <<0, 2>>, <<2, 2>>}}
    \cup {Scenario("market", 0, 2, 2, m, FALSE, "ok", "none", Quiet) : m \in Raises}
    \cup {Scenario("limit", 90, pct[1], pct[2], FALSE, FALSE, "ok", rb, Quiet) :
            rb \in {"long", "short"}, pct \in {<<2, 0>>, <<0, 2>>, <<2, 2>>}}

\* the position get_position reads back after an entry of this amount
Readback(side, amount) ==
    IF side = "none" THEN NoPosition
    ELSE [side |-> side, size |-> amount, entry_price |-> 100]

\* the price fetch_ticker answers while an order is placed
TickerLast == 110

GwOf(sc, amount) ==
    [mode_raises |-> sc.mode_raises, sl_mode_raises |-> sc.mode_raises,
     tp_mode_raises |-> sc.mode_raises, ticker_raises |-> sc.ticker_raises,
     entry |-> sc.entry, readback |-> Readback(sc.readback, amount),
     last |-> TickerLast, sl_raises |-> sc.raises[1],
     tp_raises |-> sc.raises[2]]

\* ui.py:696-743 placeOrder -> TradeManager.place_order (reduce_only=False,
\* no strategies)
PlaceOrder ==
    /\ Idle
    /\ \E symbol \in Symbols, side \in {"buy", "sell"}, amount \in 1..MaxSize,
          sc \in PlaceScenarios :
          /\ sc.mode_raises => hedgeMode
          /\ \E r \in {place_order(symbol, side, sc.typ, amount, sc.price, sc.sl,
                                   sc.tp, <<>>, FALSE, hedgeMode,
                                   GwOf(sc, amount))} :
                 /\ orderLog' = r.log
                 /\ lastOp' = [NoOp EXCEPT !.name = "place_order",
                                           !.symbol = symbol,
                                           !.result = Bool(r.result),
                                           !.sl_result = r.sl_result,
                                           !.tp_result = r.tp_result,
                                           !.hedge = r.hedge,
                                           !.entry = IF r.log = <<>> THEN "none"
                                                     ELSE sc.entry,
                                           !.price = sc.price,
                                           !.stop_loss_pct = sc.sl,
                                           !.take_profit_pct = sc.tp,
                                           !.position =
                                               IF r.accepted
                                                  /\ (sc.sl # 0 \/ sc.tp # 0)
                                               THEN Readback(sc.readback, amount)
                                               ELSE NoPosition]
                 /\ positions' = IF r.accepted
                                 THEN [positions EXCEPT ![symbol] =
                                          Readback(sc.readback, amount)]
                                 ELSE positions
                 /\ position_strategies' =
                        IF r.result
                        THEN SetItem(position_strategies, symbol, r.strategies)
                        ELSE position_strategies
    /\ UNCHANGED <<strikeVars, hedgeMode, bindVars, evalLog, stratVars, bookVars,
                   workers>>

\* ui.py:1186-1198 closePosition -> TradeManager.close_position
ClosePosition ==
    /\ Idle
    /\ \E symbol \in Symbols, gw \in CloseOutcomes :
          \E r \in {close_position(symbol, positions, hedgeMode, gw)} :
              /\ orderLog' = r.log
              /\ lastOp' = [NoOp EXCEPT !.name = "close_position",
                                        !.symbol = symbol,
                                        !.result = Bool(r.result),
                                        !.hedge = get_position_mode(hedgeMode,
                                                                    gw.mode_raises),
                                        !.position =
                                            get_position(symbol, positions,
                                                         gw.list_raises)]
              /\ positions' = AfterClose(symbol, positions, r.result)
    /\ UNCHANGED <<strikeVars, hedgeMode, tmVars, evalLog, stratVars, bookVars, workers>>

\* TradeManager.close_all_positions
CloseAllPositions ==
    /\ Idle
    /\ \E list_raises \in Raises, gws \in [Symbols -> CloseOutcomes] :
          \E r \in {close_all_positions(positions, hedgeMode, list_raises, gws)} :
              /\ orderLog' = r.log
              /\ lastOp' = [NoOp EXCEPT !.name = "close_all_positions",
                                        !.result = Bool(r.result),
                                        !.listed = r.listed,
                                        !.closes = r.closes,
                                        !.open_before =
                                            get_open_positions(positions, FALSE),
                                        !.list_raises = list_raises]
              /\ positions' = r.positions
    /\ UNCHANGED <<strikeVars, hedgeMode, tmVars, evalLog, stratVars, bookVars, workers>>

\* ui.py:1062-1175 editPositionSLTP -> TradeManager.set_position_sltp
SetPositionSltp ==
    /\ Idle
    /\ \E symbol \in Symbols, sl \in {0, 95}, tp \in {0, 105},
          gw \in [fetch_raises : Raises, sl_raises : Raises, tp_raises : Raises] :
          \E r \in {set_position_sltp(symbol, sl, tp, positions, gw)} :
              /\ orderLog' = r.log
              /\ lastOp' = [NoOp EXCEPT !.name = "set_position_sltp",
                                        !.symbol = symbol,
                                        !.result = Bool(r.result),
                                        !.sl_result = r.sl_result,
                                        !.tp_result = r.tp_result]
    /\ UNCHANGED <<strikeVars, gwVars, tmVars, evalLog, stratVars, bookVars, workers>>

\* TradeManager.place_order_with_tp, as the reconciliation loop calls it
\* (ui.py:1265-1272: market order, no amount, no price)
PlaceOrderWithTp ==
    /\ Idle
    /\ \E symbol \in Symbols, side \in {"buy", "sell"}, take_profit \in {0, 102},
          sc \in {x \in PlaceScenarios : x.typ = "market" /\ x.sl = 0 /\ x.tp = 0} :
          /\ sc.mode_raises => hedgeMode
          /\ \E r \in {place_order_with_tp(symbol, side, "market", 0, 0,
                                           take_profit, hedgeMode, GwOf(sc, 1))} :
                 /\ orderLog' = r.log
                 /\ lastOp' = [NoOp EXCEPT !.name = "place_order_with_tp",
                                           !.symbol = symbol,
                                           !.result = IF r.result THEN "order"
                                                      ELSE "None",
                                           !.hedge = r.hedge,
                                           !.entry = IF r.log = <<>> THEN "none"
                                                     ELSE sc.entry,
                                           !.take_profit = take_profit,
                                           !.position =
                                               IF r.accepted
                                               THEN Readback(sc.readback, 1)
                                               ELSE NoPosition]
                 /\ positions' = IF r.accepted
                                 THEN [positions EXCEPT ![symbol] =
                                          Readback(sc.readback, 1)]
                                 ELSE positions
                 /\ position_strategies' =
                        IF r.accepted
                        THEN SetItem(position_strategies, symbol, r.strategies)
                        ELSE position_strategies
    /\ UNCHANGED <<strikeVars, hedgeMode, bindVars, evalLog, stratVars, bookVars,
                   workers>>

set_position_mode_strict(hedge_mode, outcome) ==
    outcome = "ok"

\* tradeManager.py:566-593 (ui.py:1293-1303 toggleHedgeMode); the gateway
\* accepts the change, rejects it with "No need to change", or rejects it
set_position_mode(hedge_mode, outcome) ==
    outcome \in {"ok", "no_need"}

SetPositionMode ==
    /\ Idle
    /\ \E hedge_mode \in BOOLEAN, outcome \in {"ok", "no_need", "raise"} :
          /\ outcome = "no_need" => hedgeMode = hedge_mode
          /\ hedgeMode' = IF outcome = "ok" THEN hedge_mode ELSE hedgeMode
          /\ lastOp' = [NoOp EXCEPT !.name = "set_position_mode",
                                    !.result = Bool(set_position_mode(hedge_mode,
                                                                     outcome)),
                                    !.hedge = hedge_mode,
                                    !.outcome = outcome]
    /\ orderLog' = <<>>
    /\ UNCHANGED <<strikeVars, positions, tmVars, evalLog, stratVars, bookVars, workers>>

\* the market: a position appears, changes or disappears on the exchange
MarketActivity ==
    /\ Idle
    /\ \E s \in Symbols, pv \in PositionValues :
          /\ pv # positions[s]
          /\ positions' = [positions EXCEPT ![s] = pv]
    /\ UNCHANGED <<strikeVars, hedgeMode, tmVars, obsVars, stratVars, bookVars, workers>>

NextExec ==
    \/ PlaceOrder \/ ClosePosition \/ CloseAllPositions \/ SetPositionSltp
    \/ PlaceOrderWithTp \/ SetPositionMode \/ MarketActivity \/ Return

SpecExec == Init /\ [][NextExec]_vars

\* ---------------------------------------------- symbol-bound strategies
BoundStrategies ==
    {"StopAndReverseStrategy", "MarketReversalStrategy",
     "TrailingStopWithPartialProfits"}

reversal_percentage == 2
tp_percentage == 2

\* position.get('last_price'): 0 when the dict has no such key
LastPrice(position) ==
    IF "last_price" \in DOMAIN position THEN position.last_price ELSE 0

StopAndReverse_should_execute_ignores_hit(ctx) ==
    /\ ctx.position # NoPosition
    /\ ctx.symbol # ""

\* strategy.py:352-365
StopAndReverse_should_execute(ctx) ==
    /\ ctx.position # NoPosition
    /\ ctx.symbol # ""
    /\ ctx.stop_loss_hit

StopAndReverse_execute_one_direction(ctx) ==
    LET original_side == ctx.position.side
        exit_price == LastPrice(ctx.position)
        new_side == IF original_side = "long" THEN "sell" ELSE "buy"
        tp_price == (exit_price * (100 + tp_percentage)) \div 100
    IN  IF ctx.position = NoPosition \/ ctx.symbol = "" THEN NoAction
        ELSE IF original_side = "none" \/ exit_price = 0 THEN NoAction
        ELSE Action("place_order_with_tp", ctx.symbol, new_side, tp_price)

\* strategy.py:367-402
StopAndReverse_execute(ctx) ==
    LET original_side == ctx.position.side
        exit_price == LastPrice(ctx.position)
        new_side == IF original_side = "long" THEN "sell" ELSE "buy"
        tp_price == IF new_side = "sell"
                    THEN (exit_price * (100 - tp_percentage)) \div 100
                    ELSE (exit_price * (100 + tp_percentage)) \div 100
    IN  IF ctx.position = NoPosition \/ ctx.symbol = "" THEN NoAction
        ELSE IF original_side = "none" \/ exit_price = 0 THEN NoAction
        ELSE Action("place_order_with_tp", ctx.symbol, new_side, tp_price)

MarketReversal_should_execute_fires_on_hit(ctx, stopped, ticker) ==
    IF ctx.position = NoPosition \/ ctx.symbol = ""
    THEN [result |-> FALSE, stopped |-> stopped, raised |-> FALSE]
    ELSE IF ctx.stop_loss_hit
    THEN IF "last_price" \in DOMAIN ctx.position
         THEN [result |-> TRUE,
               stopped |-> [side |-> ctx.position.side,
                            exit_price |-> LastPrice(ctx.position),
                            timestamp |-> ctx.timestamp],
               raised |-> FALSE]
         ELSE [result |-> FALSE, stopped |-> stopped, raised |-> TRUE]
    ELSE IF stopped # NoStopped /\ ticker # 0
    THEN [result |-> IF stopped.side = "long"
                     THEN ticker * 100 >=
                              stopped.exit_price * (100 + reversal_percentage)
                     ELSE stopped.exit_price * 100 >=
                              ticker * (100 + reversal_percentage),
          stopped |-> stopped, raised |-> FALSE]
    ELSE [result |-> FALSE, stopped |-> stopped, raised |-> FALSE]

MarketReversal_should_execute_strict(ctx, stopped, ticker) ==
    IF ctx.position = NoPosition \/ ctx.symbol = "" \/ ctx.stop_loss_hit
       \/ stopped = NoStopped \/ ticker = 0
    THEN [result |-> FALSE,
          stopped |-> IF ctx.position # NoPosition /\ ctx.stop_loss_hit
                         /\ "last_price" \in DOMAIN ctx.position
                      THEN [side |-> ctx.position.side,
                            exit_price |-> LastPrice(ctx.position),
                            timestamp |-> ctx.timestamp]
                      ELSE stopped,
          raised |-> ctx.position # NoPosition /\ ctx.stop_loss_hit
                     /\ ~("last_price" \in DOMAIN ctx.position)]
    ELSE [result |-> IF stopped.side = "long"
                     THEN ticker * 100 >
                              stopped.exit_price * (100 + reversal_percentage)
                     ELSE stopped.exit_price * 100 >
                              ticker * (100 + reversal_percentage),
          stopped |-> stopped, raised |-> FALSE]

\* strategy.py:45-86. stopped is the instance's stopped_positions entry for
\* the context's symbol; ticker is the last price fetch_ticker answers, 0 when
\* it raises. raised: position['last_price'] raised KeyError (line 58).
MarketReversal_should_execute(ctx, stopped, ticker) ==
    IF ctx.position = NoPosition \/ ctx.symbol = ""
    THEN [result |-> FALSE, stopped |-> stopped, raised |-> FALSE]
    ELSE IF ctx.stop_loss_hit
    THEN IF "last_price" \in DOMAIN ctx.position
         THEN [result |-> FALSE,
               stopped |-> [side |-> ctx.position.side,
                            exit_price |-> LastPrice(ctx.position),
                            timestamp |-> ctx.timestamp],
               raised |-> FALSE]
         ELSE [result |-> FALSE, stopped |-> stopped, raised |-> TRUE]
    ELSE IF stopped # NoStopped /\ ticker # 0
    THEN [result |-> IF stopped.side = "long"
                     THEN ticker * 100 >=
                              stopped.exit_price * (100 + reversal_percentage)
                     ELSE stopped.exit_price * 100 >=
                              ticker * (100 + reversal_percentage),
          stopped |-> stopped, raised |-> FALSE]
    ELSE [result |-> FALSE, stopped |-> stopped, raised |-> FALSE]

MarketReversal_execute_keeps_record(ctx, stopped) ==
    IF ctx.symbol = "" \/ stopped = NoStopped
    THEN [action |-> NoAction, stopped |-> stopped]
    ELSE [action |-> Action("place_order", ctx.symbol,
                            IF stopped.side = "long" THEN "sell" ELSE "buy", 0),
          stopped |-> stopped]

\* strategy.py:88-111
MarketReversal_execute(ctx, stopped) ==
    IF ctx.symbol = "" \/ stopped = NoStopped
    THEN [action |-> NoAction, stopped |-> stopped]
    ELSE [action |-> Action("place_order", ctx.symbol,
                            IF stopped.side = "long" THEN "sell" ELSE "buy", 0),
          stopped |-> NoStopped]

\* should_execute of the strategy instance of this class
Bound_should_execute(name, ctx, stopped, ticker) ==
    IF name = "StopAndReverseStrategy"
    THEN [result |-> StopAndReverse_should_execute(ctx), stopped |-> stopped,
          raised |-> FALSE]
    ELSE MarketReversal_should_execute(ctx, stopped, ticker)

\* execute of the strategy instance of this class
Bound_execute(name, ctx, stopped) ==
    IF name = "StopAndReverseStrategy"
    THEN [action |-> StopAndReverse_execute(ctx), stopped |-> stopped]
    ELSE MarketReversal_execute(ctx, stopped)

\* ------------------------------------ TrailingStopWithPartialProfits
trailing_distance_pct == 1

\* strategy.py:182-186, the default profit_levels
profit_levels ==
    <<[percentage |-> 5, amount_percentage |-> 20],
      [percentage |-> 10, amount_percentage |-> 30],
      [percentage |-> 20, amount_percentage |-> 50]>>

\* float('inf'): above every price
Infinity == 1000000

Max(a, b) == IF a >= b THEN a ELSE b

Min(a, b) == IF a <= b THEN a ELSE b

\* strategy.py:193-215; tracking is position_data[symbol], NoTracking when the
\* symbol is not in position_data
Trailing_update_position_tracking(tracking, position, current_price) ==
    IF tracking = NoTracking
    THEN [entry_price |-> position.entry_price,
          side |-> position.side,
          highest_price |-> IF position.side = "long" THEN current_price
                            ELSE Infinity,
          lowest_price |-> IF position.side = "short" THEN current_price ELSE 0,
          profits_taken |-> <<>>]
    ELSE IF position.side = "long"
    THEN [tracking EXCEPT !.highest_price = Max(current_price, @)]
    ELSE [tracking EXCEPT !.lowest_price = Min(current_price, @)]

\* strategy.py:217-234 and 293-302: the trailing stop price exists, is not 0,
\* and the current price has reached it. highest - highest * pct / 100 is
\* compared exactly, as highest * (100 - pct) against current_price * 100.
Trailing_stop_reached(tracking, current_price) ==
    IF tracking = NoTracking THEN FALSE
    ELSE IF tracking.side = "long"
    THEN /\ tracking.highest_price * (100 - trailing_distance_pct) # 0
         /\ current_price * 100 <=
                tracking.highest_price * (100 - trailing_distance_pct)
    ELSE /\ tracking.lowest_price * (100 + trailing_distance_pct) # 0
         /\ current_price * 100 >=
                tracking.lowest_price * (100 + trailing_distance_pct)

\* strategy.py:246-250 and 258: profit_pct >= target_pct, compared exactly
ProfitReached(tracking, current_price, target_pct) ==
    IF tracking.side = "long"
    THEN (current_price - tracking.entry_price) * 100 >=
             target_pct * tracking.entry_price
    ELSE (tracking.entry_price - current_price) * 100 >=
             target_pct * current_price

\* target_pct not in profits_taken
Untaken(tracking, target_pct) ==
    \A i \in 1..Len(tracking.profits_taken) :
        tracking.profits_taken[i] # target_pct

\* the partial_close dict of strategy.py:266-272; amount in hundredths of the
\* position's size
PartialClose(symbol, position, level) ==
    [NoAction EXCEPT !.action = "partial_close", !.symbol = symbol,
                     !.amount = position.size * level.amount_percentage,
                     !.profit_pct = level.percentage]

check_partial_profits_retakes(symbol, tracking, position, current_price) ==
    LET Fires(i) == ProfitReached(tracking, current_price,
                                  profit_levels[i].percentage)
        hits == {i \in 1..Len(profit_levels) : Fires(i)}
        first == CHOOSE i \in hits : \A j \in hits : i <= j
    IN  IF tracking = NoTracking \/ hits = {}
        THEN [action |-> NoAction, tracking |-> tracking]
        ELSE [action |-> PartialClose(symbol, position, profit_levels[first]),
              tracking |-> [tracking EXCEPT !.profits_taken =
                               Append(@, profit_levels[first].percentage)]]

\* strategy.py:236-274; the dict returned (NoAction for None) and the tracking
\* entry after the call
check_partial_profits(symbol, tracking, position, current_price) ==
    LET Fires(i) == /\ ProfitReached(tracking, current_price,
                                     profit_levels[i].percentage)
                    /\ Untaken(tracking, profit_levels[i].percentage)
        hits == {i \in 1..Len(profit_levels) : Fires(i)}
        first == CHOOSE i \in hits : \A j \in hits : i <= j
    IN  IF tracking = NoTracking \/ hits = {}
        THEN [action |-> NoAction, tracking |-> tracking]
        ELSE [action |-> PartialClose(symbol, position, profit_levels[first]),
              tracking |-> [tracking EXCEPT !.profits_taken =
                               Append(@, profit_levels[first].percentage)]]

Trailing_should_execute_marks_later(ctx, tracking, ticker) ==
    LET tracked == Trailing_update_position_tracking(tracking, ctx.position, ticker)
        partial == check_partial_profits(ctx.symbol, tracked, ctx.position, ticker)
        Answer(result, after, hit, profit) ==
            [result |-> result, tracking |-> after, trailing_stop_hit |-> hit,
             partial_profit |-> profit]
    IN  IF ctx.position = NoPosition \/ ctx.symbol = ""
        THEN Answer(FALSE, tracking, FALSE, NoAction)
        ELSE IF ticker = 0 THEN Answer(FALSE, tracking, FALSE, NoAction)
        ELSE IF Trailing_stop_reached(tracked, ticker)
        THEN Answer(TRUE, tracked, TRUE, NoAction)
        ELSE IF partial.action # NoAction
        THEN Answer(TRUE, tracked, FALSE, partial.action)
        ELSE Answer(FALSE, tracked, FALSE, NoAction)

Trailing_should_execute_profit_first(ctx, tracking, ticker) ==
    LET tracked == Trailing_update_position_tracking(tracking, ctx.position, ticker)
        partial == check_partial_profits(ctx.symbol, tracked, ctx.position, ticker)
        Answer(result, after, hit, profit) ==
            [result |-> result, tracking |-> after, trailing_stop_hit |-> hit,
             partial_profit |-> profit]
    IN  IF ctx.position = NoPosition \/ ctx.symbol = ""
        THEN Answer(FALSE, tracking, FALSE, NoAction)
        ELSE IF ticker = 0 THEN Answer(FALSE, tracking, FALSE, NoAction)
        ELSE IF partial.action # NoAction
        THEN Answer(TRUE, partial.tracking, FALSE, partial.action)
        ELSE IF Trailing_stop_reached(tracked, ticker)
        THEN Answer(TRUE, tracked, TRUE, NoAction)
        ELSE Answer(FALSE, tracked, FALSE, NoAction)

\* strategy.py:276-314. ticker is the last price fetch_ticker answers, 0 when
\* it raises. The answer: the returned value, the tracking entry after the
\* call, and what the call wrote into the context.
Trailing_should_execute(ctx, tracking, ticker) ==
    LET tracked == Trailing_update_position_tracking(tracking, ctx.position, ticker)
        partial == check_partial_profits(ctx.symbol, tracked, ctx.position, ticker)
        Answer(result, after, hit, profit) ==
            [result |-> result, tracking |-> after, trailing_stop_hit |-> hit,
             partial_profit |-> profit]
    IN  IF ctx.position = NoPosition \/ ctx.symbol = ""
        THEN Answer(FALSE, tracking, FALSE, NoAction)
        ELSE IF ticker = 0 THEN Answer(FALSE, tracking, FALSE, NoAction)
        ELSE IF Trailing_stop_reached(tracked, ticker)
        THEN Answer(TRUE, tracked, TRUE, NoAction)
        ELSE IF partial.action # NoAction
        THEN Answer(TRUE, partial.tracking, FALSE, partial.action)
        ELSE Answer(FALSE, tracked, FALSE, NoAction)

Trailing_execute_keeps_tracking(symbol, trailing_stop_hit, partial_profit, tracking) ==
    IF trailing_stop_hit
    THEN [action |-> [NoAction EXCEPT !.action = "close_position",
                                      !.symbol = symbol],
          tracking |-> tracking]
    ELSE IF partial_profit # NoAction
    THEN [action |-> partial_profit, tracking |-> tracking]
    ELSE [action |-> NoAction, tracking |-> tracking]

\* strategy.py:316-332; the context carries what should_execute wrote
Trailing_execute(symbol, trailing_stop_hit, partial_profit, tracking) ==
    IF trailing_stop_hit
    THEN [action |-> [NoAction EXCEPT !.action = "close_position",
                                      !.symbol = symbol],
          tracking |-> NoTracking]
    ELSE IF partial_profit # NoAction
    THEN [action |-> partial_profit, tracking |-> tracking]
    ELSE [action |-> NoAction, tracking |-> tracking]

\* should_execute of the instance bound to a symbol: stopped and tracking are
\* the instance's entries for the symbol; the answer carries what the call
\* wrote into the context
Instance_should_execute(name, ctx, stopped, tracking, ticker) ==
    IF name = "TrailingStopWithPartialProfits"
    THEN [result |-> Trailing_should_execute(ctx, tracking, ticker).result,
          stopped |-> stopped, raised |-> FALSE,
          tracking |-> Trailing_should_execute(ctx, tracking, ticker).tracking,
          trailing_stop_hit |->
              Trailing_should_execute(ctx, tracking, ticker).trailing_stop_hit,
          partial_profit |->
              Trailing_should_execute(ctx, tracking, ticker).partial_profit]
    ELSE [result |-> Bound_should_execute(name, ctx, stopped, ticker).result,
          stopped |-> Bound_should_execute(name, ctx, stopped, ticker).stopped,
          raised |-> Bound_should_execute(name, ctx, stopped, ticker).raised,
          tracking |-> tracking, trailing_stop_hit |-> FALSE,
          partial_profit |-> NoAction]

\* execute of that instance on the same context; b is what should_execute
\* answered
Instance_execute(name, ctx, b) ==
    IF name = "TrailingStopWithPartialProfits"
    THEN [action |-> Trailing_execute(ctx.symbol, b.trailing_stop_hit,
                                      b.partial_profit, b.tracking).action,
          stopped |-> b.stopped,
          tracking |-> Trailing_execute(ctx.symbol, b.trailing_stop_hit,
                                        b.partial_profit, b.tracking).tracking]
    ELSE [action |-> Bound_execute(name, ctx, b.stopped).action,
          stopped |-> Bound_execute(name, ctx, b.stopped).stopped,
          tracking |-> b.tracking]

\* ------------------------------------------------ reconciliation loop
\* evalLog entries: a should_execute call with the stop_loss_hit its context
\* carried and what it returned, and an action handed to the executor
Evaluation(strategy, symbol, stop_loss_hit, result) ==
    [kind |-> "eval", strategy |-> strategy, symbol |-> symbol,
     stop_loss_hit |-> stop_loss_hit, result |-> result, action |-> ""]

\* a should_execute call that returned true, with the action its execute
\* returned ("" for the empty dict)
Executed(strategy, symbol, action) ==
    [kind |-> "eval", strategy |-> strategy, symbol |-> symbol,
     stop_loss_hit |-> FALSE, result |-> TRUE, action |-> action.action]

Routed(strategy, symbol, action) ==
    [kind |-> "route", strategy |-> strategy, symbol |-> symbol,
     stop_loss_hit |-> FALSE, result |-> TRUE, action |-> action]

\* what the gateway does during one close_position of a tick
LoopCloseOutcomes ==
    [list_raises : {FALSE}, mode_raises : {FALSE}, order_raises : Raises]

\* what the gateway does during an order a bound strategy asked for
RouteOutcomes ==
    {GwOf(Scenario("market", 0, 0, 0, FALSE, FALSE, "raise", "none", Quiet), 1),
     GwOf(Scenario("market", 0, 0, 0, FALSE, FALSE, "ok", "none", Quiet), 1)}

\* the prices fetch_ticker answers during a tick; 0: it raises
LoopTickers == {0, 103, 110}

\* what the gateway does during one tick: list_raises the tick's own listing,
\* close_list_raises and closes the closing of every position, ticker the
\* price MarketReversalStrategy fetches (0: the fetch raises), route the order
\* of a bound strategy
TickOutcomes ==
    [list_raises : Raises, close_list_raises : Raises,
     closes : [Symbols -> LoopCloseOutcomes], ticker : LoopTickers,
     route : RouteOutcomes]

HitOutcomes ==
    [close_list_raises : Raises, closes : [Symbols -> LoopCloseOutcomes]]

\* the program state a tick works on
TickState(events, pos, stopped, tracking, strategies) ==
    [events |-> events, positions |-> pos, stopped |-> stopped,
     tracking |-> tracking, position_strategies |-> strategies,
     evalLog |-> <<>>, log |-> <<>>]

\* the state after an order the executor was asked for: r is what place_order
\* or place_order_with_tp did
AfterOrder(st, name, action, r, readback) ==
    [st EXCEPT !.evalLog = @ \o <<Routed(name, action.symbol, action.action)>>,
               !.log = @ \o r.log,
               !.positions = IF r.accepted
                             THEN [@ EXCEPT ![action.symbol] = readback]
                             ELSE @,
               !.position_strategies =
                   IF r.accepted THEN SetItem(@, action.symbol, r.strategies)
                   ELSE @]

\* tradeManager.py:645-681. position is the caller's dict, stop_loss its
\* 'stop_loss' entry (0: none). The context goes to default_strategies only.
check_stop_loss_hit(symbol, position, stop_loss, current_price, events, pos, hedge, current_time, gw) ==
    LET stop_loss_hit ==
            /\ stop_loss > 0
            /\ \/ position.side = "long" /\ current_price <= stop_loss
               \/ position.side = "short" /\ current_price >= stop_loss
        context == Context(symbol, position, TRUE, current_time)
        ts == ThreeStrike_should_execute(events, context, current_time)
        c == close_all_positions(pos, hedge, gw.close_list_raises, gw.closes)
    IN  IF ~stop_loss_hit
        THEN [result |-> FALSE, events |-> events, evalLog |-> <<>>,
              log |-> <<>>, positions |-> pos]
        ELSE IF ts.result
        THEN [result |-> TRUE, events |-> ts.events,
              evalLog |-> <<Evaluation("ThreeStrikeStrategy", symbol, TRUE, TRUE),
                            Routed("ThreeStrikeStrategy", symbol,
                                   ThreeStrike_execute(ts.events).action)>>,
              log |-> c.log, positions |-> c.positions]
        ELSE [result |-> TRUE, events |-> ts.events,
              evalLog |-> <<Evaluation("ThreeStrikeStrategy", symbol, TRUE, FALSE)>>,
              log |-> <<>>, positions |-> pos]

\* ui.py:1276-1291; close_position catches what the gateway raises
closeAllPositions(pos, hedge, list_raises, gws) ==
    LET listed == get_open_positions(pos, list_raises)
        each == CloseEach(listed, pos, hedge, gws)
    IN  [listed |-> listed, closes |-> each.results, log |-> each.log,
         positions |-> each.positions]

\* ui.py:1257-1272, the routing of a bound strategy's action; amount is None
checkStrategies_route(action, name, hedge, st, gw) ==
    IF action.action = "place_order"
    THEN AfterOrder(st, name, action,
                    place_order(action.symbol, action.side, action.order_type,
                                0, 0, 0, 0, <<>>, FALSE, hedge, gw.route),
                    gw.route.readback)
    ELSE IF action.action = "place_order_with_tp"
    THEN AfterOrder(st, name, action,
                    place_order_with_tp(action.symbol, action.side,
                                        action.order_type, 0, 0,
                                        action.take_profit, hedge, gw.route),
                    gw.route.readback)
    ELSE st

\* ui.py:1217-1274, the loop over the listing; snapshot is the listing's
\* content, map the symbol_strategy_map. The contexts carry no stop_loss_hit.
RECURSIVE checkStrategies_loop(_, _, _, _, _, _, _)
checkStrategies_loop(list, snapshot, current_time, map, hedge, st, gw) ==
    IF list = <<>> THEN st
    ELSE
    LET symbol == Head(list)
        context == Context(symbol, snapshot[symbol], FALSE, current_time)
        ts == ThreeStrike_should_execute(st.events, context, current_time)
        c == closeAllPositions(st.positions, hedge, gw.close_list_raises, gw.closes)
        fired == [st EXCEPT !.events = ts.events,
                            !.evalLog = @ \o
                                <<Evaluation("ThreeStrikeStrategy", symbol, FALSE, TRUE),
                                  Routed("ThreeStrikeStrategy", symbol,
                                         ThreeStrike_execute(ts.events).action)>>,
                            !.log = @ \o c.log,
                            !.positions = c.positions]
        passed == [st EXCEPT !.events = ts.events,
                             !.evalLog = @ \o
                                 <<Evaluation("ThreeStrikeStrategy", symbol, FALSE, FALSE)>>]
        name == map[symbol]
        b == Instance_should_execute(name, context, st.stopped[symbol],
                                     st.tracking[symbol], gw.ticker)
        x == Instance_execute(name, context, b)
        evaluated == [passed EXCEPT
                         !.stopped[symbol] = IF b.result THEN x.stopped ELSE b.stopped,
                         !.tracking[symbol] = IF b.result THEN x.tracking
                                              ELSE b.tracking,
                         !.evalLog = @ \o
                             <<IF b.result THEN Executed(name, symbol, x.action)
                               ELSE Evaluation(name, symbol, FALSE, FALSE)>>]
        after == IF name = "none" THEN passed
                 ELSE IF ~b.result THEN evaluated
                 ELSE checkStrategies_route(x.action, name, hedge, evaluated, gw)
    IN  IF ts.result THEN fired
        ELSE checkStrategies_loop(Tail(list), snapshot, current_time, map, hedge,
                                  after, gw)

\* ui.py:1203-1274
checkStrategies(pos, events, stopped, tracking, strategies, map, hedge, current_time, gw) ==
    checkStrategies_loop(get_open_positions(pos, gw.list_raises), pos,
                         current_time, map, hedge,
                         TickState(events, pos, stopped, tracking, strategies), gw)

\* tradeManager.py:620-640, the routing of a strategy's action
check_strategies_route(action, name, position, hedge, st, gw) ==
    LET closed == close_position(action.symbol, st.positions, hedge,
                                 gw.closes[action.symbol])
        c == close_all_positions(st.positions, hedge, gw.close_list_raises,
                                 gw.closes)
    IN  IF action.action = "place_order"
        THEN AfterOrder(st, name, action,
                        place_order(action.symbol, action.side, action.order_type,
                                    position.size, 0, 0, 0, <<>>, FALSE, hedge,
                                    gw.route),
                        gw.route.readback)
        ELSE IF action.action = "close_position"
        THEN [st EXCEPT !.evalLog = @ \o <<Routed(name, action.symbol, action.action)>>,
                        !.log = @ \o closed.log,
                        !.positions = AfterClose(action.symbol, @, closed.result)]
        ELSE IF action.action = "close_all_positions"
        THEN [st EXCEPT !.evalLog = @ \o <<Routed(name, action.symbol, action.action)>>,
                        !.log = @ \o c.log,
                        !.positions = c.positions]
        ELSE st

\* tradeManager.py:615-640, the loop over one symbol's strategies
RECURSIVE check_strategies_each(_, _, _, _, _, _, _)
check_strategies_each(strategies, symbol, position, current_time, hedge, st, gw) ==
    IF strategies = <<>> THEN st
    ELSE
    LET strat == Head(strategies)
        context == Context(symbol, position, FALSE, current_time)
        ts == ThreeStrike_should_execute(st.events, context, current_time)
        b == Instance_should_execute(strat, context, st.stopped[symbol],
                                     st.tracking[symbol], gw.ticker)
        x == IF strat = "ThreeStrikeStrategy"
             THEN [action |-> Action(ThreeStrike_execute(ts.events).action,
                                     symbol, "", 0),
                   stopped |-> st.stopped[symbol],
                   tracking |-> st.tracking[symbol]]
             ELSE Instance_execute(strat, context, b)
        result == IF strat = "ThreeStrikeStrategy" THEN ts.result ELSE b.result
        evaluated == [st EXCEPT
                         !.events = IF strat = "ThreeStrikeStrategy"
                                    THEN ts.events ELSE @,
                         !.stopped[symbol] = IF strat = "ThreeStrikeStrategy" THEN @
                                             ELSE IF b.result THEN x.stopped
                                             ELSE b.stopped,
                         !.tracking[symbol] = IF strat = "ThreeStrikeStrategy" THEN @
                                              ELSE IF b.result THEN x.tracking
                                              ELSE b.tracking,
                         !.evalLog = @ \o
                             <<IF result /\ strat # "ThreeStrikeStrategy"
                               THEN Executed(strat, symbol, x.action)
                               ELSE Evaluation(strat, symbol, FALSE, result)>>]
        after == IF result /\ x.action # NoAction
                 THEN check_strategies_route(x.action, strat, position, hedge,
                                             evaluated, gw)
                 ELSE evaluated
    IN  check_strategies_each(Tail(strategies), symbol, position, current_time,
                              hedge, after, gw)

RECURSIVE check_strategies_loop_no_skip(_, _, _, _, _)
check_strategies_loop_no_skip(items, current_time, hedge, st, gw) ==
    IF items = <<>> THEN st
    ELSE
    LET symbol == Head(items).symbol
        position == get_position(symbol, st.positions, gw.list_raises)
        after == check_strategies_each(Head(items).strategies, symbol,
                                       position, current_time, hedge, st, gw)
    IN  check_strategies_loop_no_skip(Tail(items), current_time, hedge, after, gw)

\* tradeManager.py:600-643, the loop over position_strategies.items()
RECURSIVE check_strategies_loop(_, _, _, _, _)
check_strategies_loop(items, current_time, hedge, st, gw) ==
    IF items = <<>> THEN st
    ELSE
    LET symbol == Head(items).symbol
        position == get_position(symbol, st.positions, gw.list_raises)
        after == IF position = NoPosition THEN st
                 ELSE check_strategies_each(Head(items).strategies, symbol,
                                            position, current_time, hedge, st, gw)
    IN  check_strategies_loop(Tail(items), current_time, hedge, after, gw)

\* tradeManager.py:595-643
check_strategies(pos, events, stopped, tracking, strategies, hedge, current_time, gw) ==
    check_strategies_loop(strategies, current_time, hedge,
                          TickState(events, pos, stopped, tracking, strategies), gw)

\* ------------------------------------------------------ loop operations
\* the position the exchange reports for a symbol in the loop specifications
LoopPosition ==
    [BTC |-> [side |-> "long", size |-> 1, entry_price |-> 100],
     ETH |-> [side |-> "short", size |-> 1, entry_price |-> 100]]

\* the 'stop_loss' entries of the dicts handed to check_stop_loss_hit
StopLevels == {0, 100}

\* the current prices handed to check_stop_loss_hit
LoopPrices == {90, 110}

\* the detections in a row end when the position is no longer the same
KeepDetection(det, pos) ==
    IF det.symbol # "" /\ pos[det.symbol] # det.position THEN NoDetection
    ELSE det

\* the detection count after a check_stop_loss_hit call on this position
NextDetection(det, symbol, position, stop_loss, detected) ==
    IF ~detected
    THEN (IF det.symbol = symbol THEN NoDetection ELSE det)
    ELSE IF det.symbol = symbol /\ det.position = position
            /\ det.stop_loss = stop_loss
    THEN [det EXCEPT !.handed = @ + 1]
    ELSE [symbol |-> symbol, position |-> position, stop_loss |-> stop_loss,
          handed |-> 1]

\* the market in the loop specifications: a position opens or is gone
LoopMarketActivity ==
    /\ Idle
    /\ \E s \in Symbols :
          /\ positions' = [positions EXCEPT ![s] =
                              IF positions[s] = NoPosition THEN LoopPosition[s]
                              ELSE NoPosition]
          /\ detections' = IF detections.symbol = s THEN NoDetection
                           ELSE detections
    /\ UNCHANGED <<strikeVars, hedgeMode, position_strategies,
                   symbol_strategy_map, stopped_positions, obsVars, stratVars, bookVars,
                   workers>>

\* ui.py:397-442 applyStrategy: a new instance of the class is bound
ApplyStrategy ==
    /\ Idle
    /\ \E symbol \in Symbols, strategy_name \in BoundStrategies :
          /\ symbol_strategy_map' =
                 [symbol_strategy_map EXCEPT ![symbol] = strategy_name]
          /\ stopped_positions' = [stopped_positions EXCEPT ![symbol] = NoStopped]
          /\ position_data' = [position_data EXCEPT ![symbol] = NoTracking]
    /\ UNCHANGED <<strikeVars, gwVars, position_strategies, detections, obsVars,
                   strategyCall, observed, bookVars, workers>>

\* ui.py:469-490 removeStrategy
RemoveStrategy ==
    /\ Idle
    /\ \E symbol \in Symbols :
          /\ symbol_strategy_map[symbol] # "none"
          /\ symbol_strategy_map' = [symbol_strategy_map EXCEPT ![symbol] = "none"]
          /\ stopped_positions' = [stopped_positions EXCEPT ![symbol] = NoStopped]
          /\ position_data' = [position_data EXCEPT ![symbol] = NoTracking]
    /\ UNCHANGED <<strikeVars, gwVars, position_strategies, detections, obsVars,
                   strategyCall, observed, bookVars, workers>>

\* TradeManager.check_stop_loss_hit on an open position
CheckStopLossHit ==
    /\ Idle
    /\ \E symbol \in Symbols, stop_loss \in StopLevels,
          current_price \in LoopPrices, gw \in HitOutcomes :
          /\ positions[symbol] # NoPosition
          /\ Len(history) < MaxHits
          /\ \E r \in {check_stop_loss_hit(symbol, positions[symbol], stop_loss,
                                           current_price, stop_loss_events,
                                           positions, hedgeMode, now, gw)} :
                 /\ stop_loss_events' = r.events
                 /\ history' = IF r.result THEN Append(history, now) ELSE history
                 /\ positions' = r.positions
                 /\ orderLog' = r.log
                 /\ evalLog' = r.evalLog
                 /\ lastOp' = [NoOp EXCEPT !.name = "check_stop_loss_hit",
                                           !.symbol = symbol,
                                           !.result = Bool(r.result)]
                 /\ detections' = NextDetection(detections, symbol,
                                                positions[symbol], stop_loss,
                                                r.result)
    /\ UNCHANGED <<now, lastCall, hedgeMode, position_strategies,
                   symbol_strategy_map, stopped_positions, stratVars, bookVars,
                   workers>>

\* ui.py:1203-1274 checkStrategies, one tick
UiCheckStrategies ==
    /\ Idle
    /\ \E gw \in TickOutcomes :
          \E r \in {checkStrategies(positions, stop_loss_events, stopped_positions,
                                    position_data, position_strategies,
                                    symbol_strategy_map, hedgeMode, now, gw)} :
              /\ stop_loss_events' = r.events
              /\ positions' = r.positions
              /\ stopped_positions' = r.stopped
              /\ position_data' = r.tracking
              /\ position_strategies' = r.position_strategies
              /\ orderLog' = r.log
              /\ evalLog' = r.evalLog
              /\ lastOp' = [NoOp EXCEPT !.name = "checkStrategies",
                                        !.listed = get_open_positions(positions,
                                                       gw.list_raises),
                                        !.open_before =
                                            get_open_positions(positions, FALSE)]
              /\ detections' = KeepDetection(detections, r.positions)
    /\ UNCHANGED <<now, history, lastCall, hedgeMode, symbol_strategy_map,
                   strategyCall, observed, bookVars, workers>>

NextUiLoop ==
    \/ LoopMarketActivity \/ ApplyStrategy \/ RemoveStrategy \/ CheckStopLossHit
    \/ UiCheckStrategies \/ Return

SpecUiLoop == Init /\ [][NextUiLoop]_vars

\* the side of the order that opens a position of this side
EntrySide(side) == IF side = "long" THEN "buy" ELSE "sell"

\* TradeManager.place_order called with a strategies list (tradeManager.py:
\* 181-194): a market order that opens the symbol's position, or is refused
PlaceOrderApi ==
    /\ Idle
    /\ \E symbol \in Symbols,
          strategies \in {<<>>, <<"StopAndReverseStrategy">>,
                          <<"MarketReversalStrategy">>,
                          <<"TrailingStopWithPartialProfits">>},
          entry \in {"ok", "raise"} :
          \E sc \in {Scenario("market", 0, 0, 0, FALSE, FALSE, entry,
                              LoopPosition[symbol].side, Quiet)} :
          \E r \in {place_order(symbol,
                                EntrySide(LoopPosition[symbol].side),
                                sc.typ, 1, sc.price, sc.sl, sc.tp, strategies,
                                FALSE, hedgeMode, GwOf(sc, 1))} :
              /\ orderLog' = r.log
              /\ lastOp' = [NoOp EXCEPT !.name = "place_order",
                                        !.symbol = symbol,
                                        !.result = Bool(r.result),
                                        !.hedge = r.hedge]
              /\ positions' = IF r.accepted
                              THEN [positions EXCEPT ![symbol] =
                                       Readback(sc.readback, 1)]
                              ELSE positions
              /\ position_strategies' =
                     IF r.result
                     THEN SetItem(position_strategies, symbol, r.strategies)
                     ELSE position_strategies
              /\ stopped_positions' =
                     IF r.result
                     THEN [stopped_positions EXCEPT ![symbol] = NoStopped]
                     ELSE stopped_positions
              /\ position_data' =
                     IF r.result
                     THEN [position_data EXCEPT ![symbol] = NoTracking]
                     ELSE position_data
              /\ detections' = IF r.accepted /\ detections.symbol = symbol
                               THEN NoDetection ELSE detections
    /\ UNCHANGED <<strikeVars, hedgeMode, symbol_strategy_map, evalLog,
                   strategyCall, observed, bookVars, workers>>

\* TradeManager.check_strategies, one tick
TmCheckStrategies ==
    /\ Idle
    /\ \E gw \in TickOutcomes :
          \E r \in {check_strategies(positions, stop_loss_events,
                                     stopped_positions, position_data,
                                     position_strategies, hedgeMode, now, gw)} :
              /\ stop_loss_events' = r.events
              /\ positions' = r.positions
              /\ stopped_positions' = r.stopped
              /\ position_data' = r.tracking
              /\ position_strategies' = r.position_strategies
              /\ orderLog' = r.log
              /\ evalLog' = r.evalLog
              /\ lastOp' = [NoOp EXCEPT !.name = "check_strategies",
                                        !.open_before =
                                            get_open_positions(positions, FALSE)]
              /\ detections' = KeepDetection(detections, r.positions)
    /\ UNCHANGED <<now, history, lastCall, hedgeMode, symbol_strategy_map,
                   strategyCall, observed, bookVars, workers>>

NextTmLoop ==
    \/ LoopMarketActivity \/ PlaceOrderApi \/ CheckStopLossHit
    \/ TmCheckStrategies \/ Return

SpecTmLoop == Init /\ [][NextTmLoop]_vars

\* ------------------------------------------ strategy calls on their own
\* The strategies are classes any caller may drive (strategy.py:405-438):
\* the specifications below call one instance with contexts of every shape.

\* the position dicts of the contexts: as get_open_positions builds them
\* (no 'last_price' key) and with the last observed price; prices in tenths
StrategyPositions ==
    [side : {"long", "short"}, size : {1}, entry_price : {1000}]

WithLastPrice(position, last_price) ==
    [side |-> position.side, size |-> position.size,
     entry_price |-> position.entry_price, last_price |-> last_price]

ReversalContextPositions ==
    {NoPosition} \cup StrategyPositions
    \cup {WithLastPrice(p, 1000) : p \in StrategyPositions}

\* what fetch_ticker answers in MarketReversalStrategy.should_execute, in
\* tenths; 0: it raises
ReversalTickers == {0, 980, 981, 1019, 1020}

\* the clock advances between strategy calls
StrategyAdvance ==
    /\ now < MaxStrategyTime
    /\ now' = now + 1
    /\ UNCHANGED <<stop_loss_events, history, lastCall, gwVars, tmVars, obsVars,
                   stratVars, bookVars, workers>>

\* one call of MarketReversalStrategy.should_execute
ReversalShouldExecute ==
    \E symbol \in Symbols, position \in ReversalContextPositions,
       stop_loss_hit \in BOOLEAN, ticker \in ReversalTickers :
        \E r \in {MarketReversal_should_execute(
                      Context(symbol, position, stop_loss_hit, now),
                      stopped_positions[symbol], ticker)} :
            /\ stopped_positions' = [stopped_positions EXCEPT ![symbol] = r.stopped]
            /\ strategyCall' =
                   [NoStrategyCall EXCEPT
                       !.strategy = "MarketReversalStrategy",
                       !.op = "should_execute", !.symbol = symbol,
                       !.position = position, !.stop_loss_hit = stop_loss_hit,
                       !.timestamp = now, !.ticker = ticker,
                       !.result = r.result, !.raised = r.raised,
                       !.before = stopped_positions[symbol],
                       !.after = r.stopped]
            /\ UNCHANGED <<strikeVars, gwVars, position_strategies,
                           symbol_strategy_map, detections, obsVars,
                           position_data, observed, bookVars, workers>>

\* one call of MarketReversalStrategy.execute
ReversalExecute ==
    \E symbol \in Symbols, position \in ReversalContextPositions :
        \E x \in {MarketReversal_execute(Context(symbol, position, FALSE, now),
                                         stopped_positions[symbol])} :
            /\ stopped_positions' = [stopped_positions EXCEPT ![symbol] = x.stopped]
            /\ strategyCall' =
                   [NoStrategyCall EXCEPT
                       !.strategy = "MarketReversalStrategy",
                       !.op = "execute", !.symbol = symbol,
                       !.position = position, !.timestamp = now,
                       !.executed = TRUE, !.action = x.action,
                       !.before = stopped_positions[symbol],
                       !.after = x.stopped]
            /\ UNCHANGED <<strikeVars, gwVars, position_strategies,
                           symbol_strategy_map, detections, obsVars,
                           position_data, observed, bookVars, workers>>

NextReversal == StrategyAdvance \/ ReversalShouldExecute \/ ReversalExecute

SpecReversal == Init /\ [][NextReversal]_vars

\* the contexts handed to StopAndReverseStrategy: with and without a symbol,
\* with and without a position, the position with and without its last price
StopReverseSymbols == Symbols \cup {""}

StopReverseExitPrices == {950, 1000, 1050}

StopReverseContextPositions ==
    {NoPosition} \cup StrategyPositions
    \cup {WithLastPrice(p, e) : p \in StrategyPositions, e \in StopReverseExitPrices}

\* one call of StopAndReverseStrategy.should_execute; the instance's
\* stopped_positions dict is neither read nor written
StopReverseShouldExecute ==
    \E symbol \in StopReverseSymbols, position \in StopReverseContextPositions,
       stop_loss_hit \in BOOLEAN :
        /\ strategyCall' =
               [NoStrategyCall EXCEPT
                   !.strategy = "StopAndReverseStrategy",
                   !.op = "should_execute", !.symbol = symbol,
                   !.position = position, !.stop_loss_hit = stop_loss_hit,
                   !.timestamp = now,
                   !.result = StopAndReverse_should_execute(
                                  Context(symbol, position, stop_loss_hit, now)),
                   !.before = stopped_positions,
                   !.after = stopped_positions]
        /\ UNCHANGED <<strikeVars, gwVars, tmVars, obsVars, position_data,
                       observed, bookVars, workers>>

\* one call of StopAndReverseStrategy.execute
StopReverseExecute ==
    \E symbol \in StopReverseSymbols, position \in StopReverseContextPositions,
       stop_loss_hit \in BOOLEAN :
        /\ strategyCall' =
               [NoStrategyCall EXCEPT
                   !.strategy = "StopAndReverseStrategy",
                   !.op = "execute", !.symbol = symbol,
                   !.position = position, !.stop_loss_hit = stop_loss_hit,
                   !.timestamp = now, !.executed = TRUE,
                   !.action = StopAndReverse_execute(
                                  Context(symbol, position, stop_loss_hit, now)),
                   !.before = stopped_positions,
                   !.after = stopped_positions]
        /\ UNCHANGED <<strikeVars, gwVars, tmVars, obsVars, position_data,
                       observed, bookVars, workers>>

NextStopReverse == StrategyAdvance \/ StopReverseShouldExecute \/ StopReverseExecute

SpecStopReverse == Init /\ [][NextStopReverse]_vars

\* the position dicts of the contexts handed to TrailingStopWithPartialProfits
TrailingContextPositions == {NoPosition} \cup StrategyPositions

\* the symbols the instance is evaluated for
TrailingSymbols == {"BTC"}

\* what fetch_ticker answers in should_execute, in tenths; 0: it raises
TrailingTickers == {0, 900, 909, 950, 1000, 1050, 1089, 1090, 1100}

\* what has been seen of a symbol once this price on this side is seen too
Observe(seen, side, price) ==
    IF seen.sides = {}
    THEN [highest |-> price, lowest |-> price, sides |-> {side},
          stopped |-> FALSE, dropped |-> {}]
    ELSE [highest |-> Max(seen.highest, price), lowest |-> Min(seen.lowest, price),
          sides |-> seen.sides \cup {side}, stopped |-> FALSE,
          dropped |-> seen.dropped]

\* one evaluation of a TrailingStopWithPartialProfits instance: should_execute
\* and, when it returned true and the caller goes on (ui.py:1248-1249,
\* tradeManager.py:616-618), execute on the same context
TrailingEvaluate ==
    /\ strategyCall = NoStrategyCall
    /\ \E symbol \in TrailingSymbols, position \in TrailingContextPositions,
          ticker \in TrailingTickers, run_execute \in BOOLEAN :
          \E r \in {Trailing_should_execute(Context(symbol, position, FALSE, now),
                                             position_data[symbol], ticker)} :
          \E x \in {IF r.result /\ run_execute
                     THEN Trailing_execute(symbol, r.trailing_stop_hit,
                                           r.partial_profit, r.tracking)
                     ELSE [action |-> NoAction, tracking |-> r.tracking]} :
          \E seen \in {IF position = NoPosition \/ ticker = 0
                        THEN observed[symbol]
                        ELSE Observe(observed[symbol], position.side, ticker)} :
              /\ position_data' = [position_data EXCEPT ![symbol] = x.tracking]
              /\ observed' = [observed EXCEPT ![symbol] =
                                  IF x.tracking = NoTracking
                                  THEN [NoObserved EXCEPT !.stopped =
                                           \/ observed[symbol].stopped
                                           \/ (r.trailing_stop_hit /\ run_execute)]
                                  ELSE IF r.partial_profit # NoAction /\ ~run_execute
                                  THEN [seen EXCEPT !.dropped =
                                           @ \cup {r.partial_profit.profit_pct}]
                                  ELSE seen]
              /\ strategyCall' =
                     [NoStrategyCall EXCEPT
                         !.strategy = "TrailingStopWithPartialProfits",
                         !.op = "should_execute", !.symbol = symbol,
                         !.position = position, !.timestamp = now,
                         !.ticker = ticker, !.result = r.result,
                         !.executed = r.result /\ run_execute,
                         !.action = x.action,
                         !.trailing_stop_hit = r.trailing_stop_hit,
                         !.partial_profit = r.partial_profit,
                         !.before = position_data[symbol],
                         !.after = x.tracking,
                         !.after_stop = observed[symbol].stopped,
                         !.observed = seen]
    /\ UNCHANGED <<strikeVars, gwVars, tmVars, obsVars, bookVars, workers>>

\* the caller is done with the evaluation
TrailingReturn ==
    /\ strategyCall # NoStrategyCall
    /\ strategyCall' = NoStrategyCall
    /\ UNCHANGED <<strikeVars, gwVars, tmVars, obsVars, position_data, observed, bookVars,
                   workers>>

NextTrailing == TrailingEvaluate \/ TrailingReturn

SpecTrailing == Init /\ [][NextTrailing]_vars

\* ----------------------------------------------------------- order book
\* The exchange keeps the open orders; TradeManager.orders keeps the entry
\* orders place_order was answered with. An order the gateway accepts gets an
\* id no tracked or open order carries.
MaxBook == 2
MaxTracked == 1

\* the symbol the order book is followed for
BookSymbols == {"BTC"}

\* an open order as fetch_open_orders reports it: 'type' in lower case,
\* 'stopPrice' 0 when the order has none
Order(id, symbol, type, stopPrice) ==
    [id |-> id, symbol |-> symbol, type |-> type, stopPrice |-> stopPrice]

\* the substrings among 'stop', 'profit', 'take_profit' of an order type
\* (the operands of Python's `in` at tradeManager.py:43, 49 and 716)
Tokens(order_type) ==
    CASE order_type \in {"stop", "stop_market", "stop_loss"} -> {"stop"}
      [] order_type \in {"take_profit", "take_profit_market"} ->
             {"profit", "take_profit"}
      [] OTHER -> {}

\* the type the exchange reports for an accepted submission: a market order
\* with a stopPrice rests as the conditional order of its chain
ReportedType(submission) ==
    IF submission.role = "entry" THEN submission.type
    ELSE IF submission.type \in {"market", "STOP_MARKET", "stop_market"}
              /\ submission.role = "stop_loss" THEN "stop_market"
    ELSE IF submission.type = "STOP" THEN "stop"
    ELSE IF submission.type = "TAKE_PROFIT" THEN "take_profit"
    ELSE "take_profit_market"

Ids(list) == {list[i].id : i \in 1..Len(list)}

FreshId(book, tracked) ==
    CHOOSE n \in 1..(Len(book) + Len(tracked) + 1) :
        n \notin Ids(book) \cup Ids(tracked)

\* the gateway takes one submission: a raise leaves nothing; a market entry is
\* filled at once and a limit entry rests in the book, and place_order tracks
\* either (tradeManager.py:143); an accepted conditional order rests in the book
Accept(state, submission) ==
    LET id == FreshId(state.book, state.tracked)
        order == Order(id, submission.symbol, ReportedType(submission),
                       submission.params.stopPrice)
    IN  IF submission.raised THEN state
        ELSE IF submission.role = "entry"
        THEN [book |-> IF submission.type = "market" THEN state.book
                       ELSE Append(state.book, order),
              tracked |-> Append(state.tracked,
                                 [id |-> id, symbol |-> submission.symbol])]
        ELSE [book |-> Append(state.book, order), tracked |-> state.tracked]

RECURSIVE AcceptAll(_, _)
AcceptAll(state, log) ==
    IF log = <<>> THEN state
    ELSE AcceptAll(Accept(state, Head(log)), Tail(log))

\* tradeManager.py:716, the orders set_position_sltp cancels
IsConditional(order) ==
    "stop" \in Tokens(order.type) \/ "take_profit" \in Tokens(order.type)

Without(list, ids) ==
    LET Keep(o) == o.id \notin ids
    IN  SelectSeq(list, Keep)

\* tradeManager.py:710-721. orders_raise: fetch_open_orders raises; raises_at:
\* the number of the cancel call that raises, 0 when none does. The loop ends
\* at the first raise and what follows it stays open.
cancel_existing(symbol, book, orders_raise, raises_at) ==
    LET Mine(o) == o.symbol = symbol /\ IsConditional(o)
        found == SelectSeq(book, Mine)
        calls == IF raises_at = 0 \/ raises_at > Len(found) THEN Len(found)
                 ELSE raises_at
        cancels == [i \in 1..calls |-> [id |-> found[i].id,
                                        raised |-> i = raises_at]]
        gone == {found[i].id : i \in {j \in 1..calls : j # raises_at}}
    IN  IF orders_raise THEN [book |-> book, cancels |-> <<>>]
        ELSE [book |-> Without(book, gone), cancels |-> cancels]

set_position_sltp_book_blocked(symbol, stop_loss_price, take_profit_price, pos, book, tracked, gw) ==
    LET r == set_position_sltp(symbol, stop_loss_price, take_profit_price, pos,
                               [fetch_raises |-> gw.fetch_raises,
                                sl_raises |-> gw.sl_raises,
                                tp_raises |-> gw.tp_raises])
        c == cancel_existing(symbol, book, gw.orders_raise, gw.raises_at)
        failed == gw.orders_raise
                  \/ \E i \in 1..Len(c.cancels) : c.cancels[i].raised
        placed == AcceptAll([book |-> c.book, tracked |-> tracked], r.log)
    IN  IF ~r.result \/ failed
        THEN [result |-> FALSE, log |-> <<>>, cancels |-> c.cancels,
              book |-> c.book, sl_result |-> "none", tp_result |-> "none"]
        ELSE [result |-> TRUE, log |-> r.log, cancels |-> c.cancels,
              book |-> placed.book, sl_result |-> r.sl_result,
              tp_result |-> r.tp_result]

\* tradeManager.py:683-803 with the order book: the cancellation of lines
\* 710-721 runs only past the early returns, then the placements
set_position_sltp_book(symbol, stop_loss_price, take_profit_price, pos, book, tracked, gw) ==
    LET r == set_position_sltp(symbol, stop_loss_price, take_profit_price, pos,
                               [fetch_raises |-> gw.fetch_raises,
                                sl_raises |-> gw.sl_raises,
                                tp_raises |-> gw.tp_raises])
        c == cancel_existing(symbol, book, gw.orders_raise, gw.raises_at)
        placed == AcceptAll([book |-> c.book, tracked |-> tracked], r.log)
    IN  IF ~r.result
        THEN [result |-> FALSE, log |-> <<>>, cancels |-> <<>>, book |-> book,
              sl_result |-> "none", tp_result |-> "none"]
        ELSE [result |-> TRUE, log |-> r.log, cancels |-> c.cancels,
              book |-> placed.book, sl_result |-> r.sl_result,
              tp_result |-> r.tp_result]

\* tradeManager.py:437-450: the symbol of the order, "" when neither the local
\* list nor the exchange's open orders (exchange.py:57-66, [] when the fetch
\* raises) hold the id; scanned says whether the exchange was asked
FindSymbol(list, order_id) ==
    IF \E i \in 1..Len(list) : list[i].id = order_id
    THEN list[CHOOSE i \in 1..Len(list) :
                  /\ list[i].id = order_id
                  /\ \A j \in 1..(i - 1) : list[j].id # order_id].symbol
    ELSE ""

cancel_order_untracks_always(order_id, book, tracked, scan_raises, outcome) ==
    LET local == FindSymbol(tracked, order_id)
        remote == FindSymbol(IF scan_raises THEN <<>> ELSE book, order_id)
        order_symbol == IF local # "" THEN local ELSE remote
    IN  IF order_symbol = ""
        THEN [result |-> FALSE, scanned |-> TRUE, cancels |-> <<>>,
              book |-> book, tracked |-> tracked]
        ELSE [result |-> outcome = "ok", scanned |-> local = "",
              cancels |-> <<[id |-> order_id, symbol |-> order_symbol,
                             raised |-> outcome = "raise"]>>,
              book |-> IF outcome = "ok" THEN Without(book, {order_id}) ELSE book,
              tracked |-> Without(tracked, {order_id})]

cancel_order_exchange_first(order_id, book, tracked, scan_raises, outcome) ==
    LET remote == FindSymbol(IF scan_raises THEN <<>> ELSE book, order_id)
        order_symbol == IF remote # "" THEN remote
                        ELSE FindSymbol(tracked, order_id)
    IN  IF order_symbol = ""
        THEN [result |-> FALSE, scanned |-> TRUE, cancels |-> <<>>,
              book |-> book, tracked |-> tracked]
        ELSE [result |-> outcome = "ok", scanned |-> TRUE,
              cancels |-> <<[id |-> order_id, symbol |-> order_symbol,
                             raised |-> outcome = "raise"]>>,
              book |-> IF outcome = "ok" THEN Without(book, {order_id}) ELSE book,
              tracked |-> IF outcome = "ok" THEN Without(tracked, {order_id})
                          ELSE tracked]

\* tradeManager.py:433-468. outcome: the gateway's cancel returns a result
\* ("ok"), returns nothing ("empty") or raises ("raise")
cancel_order(order_id, book, tracked, scan_raises, outcome) ==
    LET local == FindSymbol(tracked, order_id)
        remote == FindSymbol(IF scan_raises THEN <<>> ELSE book, order_id)
        order_symbol == IF local # "" THEN local ELSE remote
    IN  IF order_symbol = ""
        THEN [result |-> FALSE, scanned |-> TRUE, cancels |-> <<>>,
              book |-> book, tracked |-> tracked]
        ELSE [result |-> outcome = "ok", scanned |-> local = "",
              cancels |-> <<[id |-> order_id, symbol |-> order_symbol,
                             raised |-> outcome = "raise"]>>,
              book |-> IF outcome = "ok" THEN Without(book, {order_id}) ELSE book,
              tracked |-> IF outcome = "ok" THEN Without(tracked, {order_id})
                          ELSE tracked]

RECURSIVE ScanOrders_first_wins(_, _)
ScanOrders_first_wins(list, found) ==
    IF list = <<>> THEN found
    ELSE LET order_type == Head(list).type
             next == IF "stop" \in Tokens(order_type)
                        /\ "profit" \notin Tokens(order_type)
                        /\ found.sl_price = 0
                     THEN [found EXCEPT !.sl_price = Head(list).stopPrice]
                     ELSE IF "take_profit" \in Tokens(order_type)
                             /\ found.tp_price = 0
                     THEN [found EXCEPT !.tp_price = Head(list).stopPrice]
                     ELSE found
         IN  ScanOrders_first_wins(Tail(list), next)

\* tradeManager.py:36-55 over the open orders of one symbol: the last
\* stop-loss candidate and the last take-profit candidate give the prices
RECURSIVE ScanOrders(_, _)
ScanOrders(list, found) ==
    IF list = <<>> THEN found
    ELSE LET order_type == Head(list).type
             next == IF ("stop" \in Tokens(order_type)
                            /\ "profit" \notin Tokens(order_type))
                        \/ order_type = "stop_loss"
                     THEN [found EXCEPT !.sl_price = Head(list).stopPrice]
                     ELSE IF "take_profit" \in Tokens(order_type)
                             \/ order_type = "take_profit"
                     THEN [found EXCEPT !.tp_price = Head(list).stopPrice]
                     ELSE found
         IN  ScanOrders(Tail(list), next)

\* the raw positions fetch_positions answers, one per symbol of the account
RawPositions(pos) == [i \in 1..Len(SymbolOrder) |->
                         [symbol |-> SymbolOrder[i],
                          contracts |-> pos[SymbolOrder[i]].size,
                          side |-> pos[SymbolOrder[i]].side,
                          entryPrice |-> pos[SymbolOrder[i]].entry_price]]

RECURSIVE ProcessPositions_keeps_empty(_, _)
ProcessPositions_keeps_empty(raw, book) ==
    IF raw = <<>> THEN <<>>
    ELSE LET p == Head(raw)
             Mine(o) == o.symbol = p.symbol
             found == ScanOrders(SelectSeq(book, Mine),
                                 [sl_price |-> 0, tp_price |-> 0])
         IN  <<[symbol |-> p.symbol, side |-> p.side, size |-> p.contracts,
                entry_price |-> p.entryPrice, sl_price |-> found.sl_price,
                tp_price |-> found.tp_price]>>
             \o ProcessPositions_keeps_empty(Tail(raw), book)

\* tradeManager.py:26-68, the loop over the raw positions
RECURSIVE ProcessPositions(_, _)
ProcessPositions(raw, book) ==
    IF raw = <<>> THEN <<>>
    ELSE LET p == Head(raw)
             Mine(o) == o.symbol = p.symbol
             found == ScanOrders(SelectSeq(book, Mine),
                                 [sl_price |-> 0, tp_price |-> 0])
         IN  (IF p.contracts = 0 THEN <<>>
              ELSE <<[symbol |-> p.symbol, side |-> p.side, size |-> p.contracts,
                      entry_price |-> p.entryPrice, sl_price |-> found.sl_price,
                      tp_price |-> found.tp_price]>>)
             \o ProcessPositions(Tail(raw), book)

\* tradeManager.py:17-73 with the prices of the conditional orders; [] when
\* fetch_positions raises or fetch_open_orders raises for a listed position
get_open_positions_sltp(pos, book, list_raises, orders_raise) ==
    IF list_raises THEN <<>>
    ELSE IF orders_raise /\ ProcessPositions(RawPositions(pos), book) # <<>>
    THEN <<>>
    ELSE ProcessPositions(RawPositions(pos), book)

BookIdle == bookCall.name = "none"

BookReturn ==
    /\ ~BookIdle
    /\ bookCall' = NoBookCall
    /\ orderLog' = <<>>
    /\ UNCHANGED <<strikeVars, gwVars, tmVars, lastOp, evalLog, stratVars,
                   open_orders, orders, workers>>

\* what is asked of place_order here and what the gateway does: a market or
\* limit entry, with or without risk percentages, the chains accepting at
\* once, after one refusal, or never
BookScenarios ==
    {Scenario(t[1], t[2], pct[1], pct[2], FALSE, FALSE, e, rb, pr) :
        t \in {<<"market", 0>>, <<"limit", 90>>},
        pct \in {<<0, 0>>, <<2, 0>>, <<2, 2>>},
        e \in {"ok", "raise"}, rb \in {"none", "long"},
        pr \in {Quiet, <<RejectsFirst(4), NoRaises>>}}

\* TradeManager.place_order with the order book
BookPlaceOrder ==
    /\ BookIdle
    /\ \E symbol \in BookSymbols, sc \in BookScenarios :
          /\ (sc.sl = 0 \/ sc.entry # "ok" \/ sc.readback = "none") =>
                 sc.raises = Quiet
          /\ \E r \in {place_order(symbol, "buy", sc.typ, 1, sc.price, sc.sl,
                                   sc.tp, <<>>, FALSE, hedgeMode, GwOf(sc, 1))} :
              \E placed \in {IF r.accepted
                             THEN AcceptAll([book |-> open_orders,
                                             tracked |-> orders], r.log)
                             ELSE [book |-> open_orders, tracked |-> orders]} :
                 /\ Len(placed.book) <= MaxBook
                 /\ Len(placed.tracked) <= MaxTracked
                 /\ open_orders' = placed.book
                 /\ orders' = placed.tracked
                 /\ orderLog' = r.log
                 /\ bookCall' = [NoBookCall EXCEPT
                                    !.name = "place_order", !.symbol = symbol,
                                    !.result = Bool(r.result),
                                    !.before = open_orders, !.tracked = orders,
                                    !.stop_loss_price = sc.sl,
                                    !.take_profit_price = sc.tp,
                                    !.price = sc.price]
                 /\ positions' = IF r.accepted /\ sc.readback # "none"
                                 THEN [positions EXCEPT ![symbol] =
                                          Readback(sc.readback, 1)]
                                 ELSE positions
                 /\ position_strategies' =
                        IF r.result
                        THEN SetItem(position_strategies, symbol, r.strategies)
                        ELSE position_strategies
    /\ UNCHANGED <<strikeVars, hedgeMode, bindVars, lastOp, evalLog, stratVars, workers>>

\* TradeManager.place_order_with_tp with the order book: the entry of its
\* place_order call is all it submits
BookPlaceOrderWithTp ==
    /\ BookIdle
    /\ \E symbol \in BookSymbols, entry \in {"ok", "raise"} :
          \E r \in {place_order_with_tp(symbol, "buy", "market", 1, 0, 102,
                        hedgeMode,
                        GwOf(Scenario("market", 0, 0, 0, FALSE, FALSE, entry,
                                      "long", Quiet), 1))} :
              \E placed \in {IF r.accepted
                             THEN AcceptAll([book |-> open_orders,
                                             tracked |-> orders], r.log)
                             ELSE [book |-> open_orders, tracked |-> orders]} :
                 /\ Len(placed.tracked) <= MaxTracked
                 /\ open_orders' = placed.book
                 /\ orders' = placed.tracked
                 /\ orderLog' = r.log
                 /\ bookCall' = [NoBookCall EXCEPT
                                    !.name = "place_order_with_tp",
                                    !.symbol = symbol, !.result = "None",
                                    !.before = open_orders, !.tracked = orders,
                                    !.take_profit_price = 102]
                 /\ positions' = IF r.accepted
                                 THEN [positions EXCEPT ![symbol] = Readback("long", 1)]
                                 ELSE positions
                 /\ position_strategies' =
                        IF r.accepted
                        THEN SetItem(position_strategies, symbol, r.strategies)
                        ELSE position_strategies
    /\ UNCHANGED <<strikeVars, hedgeMode, bindVars, lastOp, evalLog, stratVars, workers>>

\* TradeManager.set_position_sltp with the order book
BookSetPositionSltp ==
    /\ BookIdle
    /\ \E symbol \in BookSymbols, sl \in {0, 95}, tp \in {0, 105},
          gw \in [fetch_raises : Raises, sl_raises : Raises, tp_raises : Raises,
                  orders_raise : Raises, raises_at : 0..MaxBook] :
          /\ gw.raises_at <= Len(open_orders)
          /\ gw.orders_raise => gw.raises_at = 0
          /\ gw.sl_raises => sl # 0
          /\ gw.tp_raises => tp # 0
          /\ gw.fetch_raises =>
                 ~(gw.sl_raises \/ gw.tp_raises \/ gw.orders_raise)
                 /\ gw.raises_at = 0
          /\ \E r \in {set_position_sltp_book(symbol, sl, tp, positions,
                                              open_orders, orders, gw)} :
                 /\ Len(r.book) <= MaxBook
                 /\ open_orders' = r.book
                 /\ orderLog' = r.log
                 /\ bookCall' = [NoBookCall EXCEPT
                                    !.name = "set_position_sltp",
                                    !.symbol = symbol,
                                    !.result = Bool(r.result),
                                    !.before = open_orders, !.tracked = orders,
                                    !.cancels = r.cancels,
                                    !.orders_raise = gw.orders_raise,
                                    !.fetch_raises = gw.fetch_raises,
                                    !.stop_loss_price = sl,
                                    !.take_profit_price = tp]
    /\ UNCHANGED <<strikeVars, gwVars, tmVars, lastOp, evalLog, stratVars, orders,
                   workers>>

\* ui.py:1177-1184 -> TradeManager.cancel_order
BookCancelOrder ==
    /\ BookIdle
    /\ \E order_id \in 1..(MaxBook + MaxTracked + 1), scan_raises \in Raises,
          outcome \in {"ok", "empty", "raise"} :
          \E r \in {cancel_order(order_id, open_orders, orders, scan_raises,
                                 outcome)} :
              /\ open_orders' = r.book
              /\ orders' = r.tracked
              /\ bookCall' = [NoBookCall EXCEPT
                                 !.name = "cancel_order", !.order_id = order_id,
                                 !.result = Bool(r.result),
                                 !.before = open_orders, !.tracked = orders,
                                 !.cancels = r.cancels, !.scanned = r.scanned,
                                 !.orders_raise = scan_raises,
                                 !.outcome = IF r.cancels = <<>> THEN "none"
                                             ELSE outcome]
    /\ orderLog' = <<>>
    /\ UNCHANGED <<strikeVars, gwVars, tmVars, lastOp, evalLog, stratVars, workers>>

\* TradeManager.get_open_positions
BookGetOpenPositions ==
    /\ BookIdle
    /\ \E list_raises \in Raises, orders_raise \in Raises :
          bookCall' = [NoBookCall EXCEPT
                          !.name = "get_open_positions",
                          !.fetch_raises = list_raises,
                          !.before = open_orders,
                          !.orders_raise = orders_raise,
                          !.raw = IF list_raises THEN <<>>
                                  ELSE RawPositions(positions),
                          !.listing = get_open_positions_sltp(positions,
                                          open_orders, list_raises, orders_raise)]
    /\ orderLog' = <<>>
    /\ UNCHANGED <<strikeVars, gwVars, tmVars, lastOp, evalLog, stratVars,
                   open_orders, orders, workers>>

\* the market: an open order is filled or triggered and leaves the book, or
\* a position is closed
BookMarketActivity ==
    /\ BookIdle
    /\ \/ /\ \E i \in 1..Len(open_orders) :
                open_orders' = Without(open_orders, {open_orders[i].id})
          /\ UNCHANGED positions
       \/ /\ \E s \in Symbols :
                /\ positions[s] # NoPosition
                /\ positions' = [positions EXCEPT ![s] = NoPosition]
          /\ UNCHANGED open_orders
    /\ UNCHANGED <<strikeVars, hedgeMode, tmVars, obsVars, stratVars, orders,
                   bookCall, workers>>

NextBook ==
    \/ BookPlaceOrder \/ BookPlaceOrderWithTp \/ BookSetPositionSltp
    \/ BookCancelOrder \/ BookGetOpenPositions \/ BookMarketActivity
    \/ BookReturn

SpecBook == Init /\ [][NextBook]_vars

\* ---------------------------------------------------------------- claims
Range(seq) == {seq[i] : i \in 1..Len(seq)}

PruningCall == lastCall.op \in {"should_execute", "updateStrikeStatus"}

\* every record appended since the last reset is inside the window at the call
AllInside == \A i \in 1..Len(history) : lastCall.time - history[i] <= time_window

\* C1: as long as every recorded stop-loss event is inside time_window, a
\* should_execute call returns true exactly when the number of stop-loss events
\* recorded so far has reached strike_limit, and false on every call before that.
C1_TrueExactlyFromLimit ==
    (lastCall.op = "should_execute" /\ AllInside)
        => /\ lastCall.result = (Len(history) >= strike_limit)
           /\ Len(stop_loss_events) = Len(history)

C1_Witness ==
    /\ lastCall.op = "should_execute"
    /\ lastCall.hit
    /\ AllInside
    /\ Len(history) = strike_limit
    /\ lastCall.result
    /\ Len(lastCall.before) = strike_limit - 1

\* C2 as stated: after pruning no remaining event has an age (time of the call
\* minus its timestamp) greater than or equal to time_window, an event of age
\* exactly time_window included.
C2_BoundaryExcluded ==
    PruningCall =>
        \A i \in 1..Len(stop_loss_events) :
            lastCall.time - stop_loss_events[i].timestamp < time_window

\* C2 amended: pruning removes exactly the events whose age is strictly greater
\* than time_window; an event of age exactly time_window stays in the count.
C2_PruneKeepsUpToWindow ==
    PruningCall =>
        /\ \A i \in 1..Len(stop_loss_events) :
               lastCall.time - stop_loss_events[i].timestamp <= time_window
        /\ \A i \in 1..Len(lastCall.before) :
               (lastCall.time - lastCall.before[i].timestamp <= time_window)
                   <=> lastCall.before[i] \in Range(stop_loss_events)
        /\ Len(stop_loss_events) =
               Cardinality({i \in 1..Len(lastCall.before) :
                   lastCall.time - lastCall.before[i].timestamp <= time_window})
               + (IF lastCall.hit THEN 1 ELSE 0)

\* a pruning call that met an event of age exactly time_window (kept) and one
\* of age time_window + 1 (dropped)
C2_Witness ==
    /\ PruningCall
    /\ \E i \in 1..Len(stop_loss_events) :
           lastCall.time - stop_loss_events[i].timestamp = time_window
    /\ \E i \in 1..Len(lastCall.before) :
           /\ lastCall.time - lastCall.before[i].timestamp = time_window + 1
           /\ lastCall.before[i] \notin Range(stop_loss_events)

\* --------------------------------------------------- claims: executor
ClosingRoles == {"close", "stop_loss", "take_profit"}

\* C3: whenever the account is in hedge mode no submitted order carries
\* reduceOnly, and in one-way mode every closing or reducing order (close,
\* stop-loss, take-profit) carries reduceOnly = true.
C3_HedgeModeInvariant ==
    \A i \in 1..Len(orderLog) :
        /\ hedgeMode => orderLog[i].params.reduceOnly = "absent"
        /\ (~hedgeMode /\ orderLog[i].role \in ClosingRoles)
               => orderLog[i].params.reduceOnly \in {"True", "true"}

\* C4: in hedge mode every submitted order carries positionSide, LONG/SHORT of
\* the position closed or reduced for closing orders (a sell closes a long) and
\* of the new side for entries (a buy opens a long); in one-way mode no order
\* carries positionSide.
C4_PositionSideInHedgeMode ==
    \A i \in 1..Len(orderLog) :
        LET o == orderLog[i]
            closed_side == IF o.side = "sell" THEN "LONG" ELSE "SHORT"
            new_side == IF o.side = "buy" THEN "LONG" ELSE "SHORT"
        IN  /\ hedgeMode =>
                   o.params.positionSide =
                       (IF o.role \in ClosingRoles THEN closed_side ELSE new_side)
            /\ ~hedgeMode => o.params.positionSide = "absent"

ChainOf(role) ==
    LET InRole(o) == o.role = role
    IN  SelectSeq(orderLog, InRole)

ChainResult(role) ==
    IF role = "stop_loss" THEN lastOp.sl_result ELSE lastOp.tp_result

ExpectedTypes(role) ==
    IF role = "stop_loss"
    THEN <<"market", "STOP_MARKET", "STOP", "STOP_MARKET">>
    ELSE <<"market", "TAKE_PROFIT_MARKET", "TAKE_PROFIT", "TAKE_PROFIT_MARKET">>

ExpectedApi ==
    <<"create_order", "create_order", "create_order", "fapiPrivatePostOrder">>

\* C5: a fallback chain issues its attempts in the order market-with-stopPrice,
\* STOP_MARKET / TAKE_PROFIT_MARKET, STOP / TAKE_PROFIT, direct API call; an
\* attempt is made only if all earlier ones raised; the first attempt that does
\* not raise ends the chain with true; the chain answers false only after all
\* four attempts raised.
C5_FallbackChainOrder ==
    lastOp.name = "place_order" =>
        \A role \in {"stop_loss", "take_profit"} :
            LET c == ChainOf(role)
            IN  /\ Len(c) <= 4
                /\ \A k \in 1..Len(c) :
                       /\ c[k].type = ExpectedTypes(role)[k]
                       /\ c[k].api = ExpectedApi[k]
                       /\ c[k].params.stopPrice # 0
                       /\ k < Len(c) => c[k].raised
                /\ (ChainResult(role) = "none") <=> (Len(c) = 0)
                /\ ChainResult(role) = "True" => ~c[Len(c)].raised
                /\ ChainResult(role) = "False" =>
                       (Len(c) = 4 /\ \A k \in 1..4 : c[k].raised)

\* the stop-loss chain succeeded at its fourth attempt, the take-profit chain
\* failed throughout
C5_Witness ==
    /\ lastOp.name = "place_order"
    /\ Len(ChainOf("stop_loss")) = 4
    /\ lastOp.sl_result = "True"
    /\ Len(ChainOf("take_profit")) = 4
    /\ lastOp.tp_result = "False"

\* C6 as stated: every attempt of a fallback chain, the fourth included,
\* submits both reduceOnly = true and closePosition = true.
C6_AllAttemptsReduceAndClose ==
    lastOp.name = "place_order" =>
        \A i \in 1..Len(orderLog) :
            orderLog[i].role \in {"stop_loss", "take_profit"} =>
                /\ orderLog[i].params.reduceOnly \in {"True", "true"}
                /\ orderLog[i].params.closePosition = "true"

\* C6 amended: every attempt of a fallback chain submits reduceOnly = true; the
\* three create_order attempts also submit closePosition = true, the fourth
\* (direct) attempt submits no closePosition.
C6_ReduceOnlyAlwaysCloseOnFirstThree ==
    lastOp.name = "place_order" =>
        \A i \in 1..Len(orderLog) :
            orderLog[i].role \in {"stop_loss", "take_profit"} =>
                /\ orderLog[i].params.reduceOnly \in {"True", "true"}
                /\ (orderLog[i].api = "create_order")
                       <=> (orderLog[i].params.closePosition = "true")
                /\ (orderLog[i].api = "fapiPrivatePostOrder")
                       <=> (orderLog[i].params.closePosition = "absent")

\* both chains ran to their fourth attempt
C6_Witness ==
    /\ lastOp.name = "place_order"
    /\ Len(ChainOf("stop_loss")) = 4
    /\ Len(ChainOf("take_profit")) = 4
    /\ ChainOf("stop_loss")[4].params.closePosition = "absent"
    /\ ChainOf("take_profit")[1].params.closePosition = "true"

\* C7: close_all_positions calls close_position once for every open position it
\* listed, in order, whatever the earlier calls returned, and returns false iff
\* at least one of these calls returned false.
C7_CloseAllNoEarlyExit ==
    lastOp.name = "close_all_positions" =>
        /\ ~lastOp.list_raises => lastOp.listed = lastOp.open_before
        /\ Len(lastOp.closes) = Len(lastOp.listed)
        /\ \A i \in 1..Len(lastOp.closes) :
               lastOp.closes[i].symbol = lastOp.listed[i]
        /\ (lastOp.result = "False")
               <=> (\E i \in 1..Len(lastOp.closes) : ~lastOp.closes[i].result)
        /\ (lastOp.result = "True")
               <=> (\A i \in 1..Len(lastOp.closes) : lastOp.closes[i].result)
        /\ \A i \in 1..Len(lastOp.closes) :
               lastOp.closes[i].result =>
                   \E j \in 1..Len(orderLog) :
                       /\ orderLog[j].symbol = lastOp.closes[i].symbol
                       /\ orderLog[j].role = "close"
                       /\ ~orderLog[j].raised

\* the first close failed, the second one was still made and succeeded
C7_Witness ==
    /\ lastOp.name = "close_all_positions"
    /\ Len(lastOp.closes) = 2
    /\ ~lastOp.closes[1].result
    /\ lastOp.closes[2].result
    /\ lastOp.result = "False"

\* the operation that just returned is a reconciliation tick
TickOp == lastOp.name \in {"checkStrategies", "check_strategies"}

\* the i-th entry of evalLog is a symbol-bound strategy evaluated or executed
BoundEntry(i) == evalLog[i].strategy \in BoundStrategies

\* the i-th entry of evalLog is the circuit breaker evaluated for the symbol
BreakerEvaluated(i, symbol) ==
    /\ evalLog[i].kind = "eval"
    /\ evalLog[i].strategy = "ThreeStrikeStrategy"
    /\ evalLog[i].symbol = symbol

\* the i-th entry of evalLog is the circuit breaker firing
BreakerFired(i) ==
    /\ evalLog[i].kind = "eval"
    /\ evalLog[i].strategy = "ThreeStrikeStrategy"
    /\ evalLog[i].result

\* C8: in a reconciliation tick the circuit breaker is evaluated for a symbol
\* before any strategy bound to that symbol, and once the breaker fires the
\* tick closes all positions and evaluates or executes no symbol-bound strategy
\* for any symbol afterwards.
C8_BreakerFirstAndPreempts ==
    TickOp =>
        /\ \A i \in 1..Len(evalLog) :
               BoundEntry(i) =>
                   \E j \in 1..(i - 1) : BreakerEvaluated(j, evalLog[i].symbol)
        /\ \A i \in 1..Len(evalLog) :
               BreakerFired(i) =>
                   /\ i < Len(evalLog)
                   /\ evalLog[i + 1].kind = "route"
                   /\ evalLog[i + 1].action = "close_all_positions"
                   /\ \A k \in (i + 1)..Len(evalLog) : ~BoundEntry(k)

\* C9: check_stop_loss_hit called again and again on the same position, the
\* price staying beyond its stop-loss level, hands a context with
\* stop_loss_hit = true to the strategies on the first call only: one fill,
\* at most one ThreeStrike record.
C9_OneContextPerFill == detections.handed <= 1

\* C10: a stop-loss fill detected on a symbol that has a bound strategy is
\* handed, in a context with stop_loss_hit = true, to that bound strategy as
\* well as to the circuit breaker.
C10_HitHandedToBoundStrategy ==
    (/\ lastOp.name = "check_stop_loss_hit"
     /\ lastOp.result = "True"
     /\ symbol_strategy_map[lastOp.symbol] # "none")
    => \E i \in 1..Len(evalLog) :
           /\ evalLog[i].kind = "eval"
           /\ evalLog[i].strategy = symbol_strategy_map[lastOp.symbol]
           /\ evalLog[i].symbol = lastOp.symbol
           /\ evalLog[i].stop_loss_hit

\* the last strategy call was this operation of this strategy
Called(strategy, op) == strategyCall.strategy = strategy /\ strategyCall.op = op

HasLastPrice(position) == "last_price" \in DOMAIN position

\* C11: for a symbol with a recorded stop-loss at exit price E, a context with
\* a position and without stop_loss_hit, and a fetched price P,
\* MarketReversal.should_execute returns true iff (P/E - 1)*100 >=
\* reversal_percentage when the stopped side was long, (E/P - 1)*100 >=
\* reversal_percentage when it was short; the comparison is inclusive: with
\* E = 100.0 and 2%, 102.0 triggers and 101.9 does not (prices in tenths).
C11_ReversalThreshold ==
    (/\ Called("MarketReversalStrategy", "should_execute")
     /\ strategyCall.position # NoPosition
     /\ ~strategyCall.stop_loss_hit
     /\ strategyCall.before # NoStopped
     /\ strategyCall.ticker # 0)
    => LET P == strategyCall.ticker
           E == strategyCall.before.exit_price
           long == strategyCall.before.side = "long"
       IN  /\ long => (strategyCall.result <=>
                           (P - E) * 100 >= reversal_percentage * E)
           /\ ~long => (strategyCall.result <=>
                            (E - P) * 100 >= reversal_percentage * P)
           /\ (long /\ E = 1000 /\ P = 1020) => strategyCall.result
           /\ (long /\ E = 1000 /\ P = 1019) => ~strategyCall.result

C11_Witness ==
    /\ Called("MarketReversalStrategy", "should_execute")
    /\ ~strategyCall.stop_loss_hit
    /\ strategyCall.before # NoStopped
    /\ strategyCall.before.side = "long"
    /\ strategyCall.before.exit_price = 1000
    /\ strategyCall.ticker = 1020
    /\ strategyCall.result

C13_ExecuteFlipsAndClears ==
    /\ Called("MarketReversalStrategy", "execute") =>
           /\ strategyCall.before # NoStopped =>
                  /\ strategyCall.action.action = "place_order"
                  /\ strategyCall.action.symbol = strategyCall.symbol
                  /\ strategyCall.before.side = "long" =>
                         strategyCall.action.side = "sell"
                  /\ strategyCall.before.side = "short" =>
                         strategyCall.action.side = "buy"
                  /\ stopped_positions[strategyCall.symbol] = NoStopped
           /\ strategyCall.before = NoStopped =>
                  /\ strategyCall.action = NoAction
                  /\ stopped_positions[strategyCall.symbol] = NoStopped
    /\ (Called("MarketReversalStrategy", "should_execute") /\ strategyCall.result)
           => strategyCall.before # NoStopped

C13_Witness ==
    /\ Called("MarketReversalStrategy", "execute")
    /\ strategyCall.before # NoStopped
    /\ strategyCall.before.side = "short"
    /\ strategyCall.action.side = "buy"
    /\ stopped_positions[strategyCall.symbol] = NoStopped

\* the last call evaluated the trailing strategy on a position, the price was
\* fetched, and every observation since the symbol's tracking began was of a
\* position of this side
TrailingCallOn(side) ==
    /\ Called("TrailingStopWithPartialProfits", "should_execute")
    /\ strategyCall.position # NoPosition
    /\ strategyCall.ticker # 0
    /\ strategyCall.observed.sides = {side}

\* should_execute flagged the trailing stop and returned true
StopFlagged == strategyCall.trailing_stop_hit /\ strategyCall.result

\* when every observation since tracking began was of a position of one
\* side, the stop is flagged exactly at the watermark's trigger, inclusive:
\* with 1% and watermark 110.0, 108.9 fires and 109.0 does not (in tenths)
TrailingStopOnOneSide ==
    /\ TrailingCallOn("long") =>
           LET W == strategyCall.observed.highest
               P == strategyCall.ticker
           IN  /\ StopFlagged <=> P * 100 <= W * (100 - trailing_distance_pct)
               /\ (W = 1100 /\ P = 1089) => StopFlagged
               /\ (W = 1100 /\ P = 1090) => ~StopFlagged
    /\ TrailingCallOn("short") =>
           LET W == strategyCall.observed.lowest
               P == strategyCall.ticker
           IN  StopFlagged <=> P * 100 >= W * (100 + trailing_distance_pct)

\* the last call evaluated the trailing strategy on a position of this side
\* and the price was fetched
TrailingCallOnPosition(side) ==
    /\ Called("TrailingStopWithPartialProfits", "should_execute")
    /\ strategyCall.position # NoPosition
    /\ strategyCall.position.side = side
    /\ strategyCall.ticker # 0

\* C14: on a long position should_execute sets trailing_stop_hit and returns
\* true iff the current price <= W * (1 - trailing_distance_pct/100), W the
\* highest price observed since the symbol's tracking began (inclusive; on a
\* short position >= and the lowest price), and the execute that follows
\* returns close_position.
C14_TrailingStopAtWatermark ==
    /\ TrailingCallOnPosition("long") =>
           (StopFlagged <=>
               strategyCall.ticker * 100 <=
                   strategyCall.observed.highest * (100 - trailing_distance_pct))
    /\ TrailingCallOnPosition("short") =>
           (StopFlagged <=>
               strategyCall.ticker * 100 >=
                   strategyCall.observed.lowest * (100 + trailing_distance_pct))
    /\ (Called("TrailingStopWithPartialProfits", "should_execute")
        /\ strategyCall.trailing_stop_hit /\ strategyCall.executed)
       => strategyCall.action.action = "close_position"

\* the tracking entry the call works on: the existing one, or the one the
\* call creates from the context's position
TrackedEntry ==
    IF strategyCall.before # NoTracking
    THEN [entry_price |-> strategyCall.before.entry_price,
          side |-> strategyCall.before.side,
          profits_taken |-> strategyCall.before.profits_taken]
    ELSE [entry_price |-> strategyCall.position.entry_price,
          side |-> strategyCall.position.side,
          profits_taken |-> <<>>]

\* the profit percentage of the tracked position at the fetched price has
\* reached the level
LevelReached(percentage) ==
    LET E == TrackedEntry.entry_price
        P == strategyCall.ticker
    IN  IF TrackedEntry.side = "long"
        THEN (P - E) * 100 >= percentage * E
        ELSE (E - P) * 100 >= percentage * P

LevelTaken(percentage) == percentage \in Range(TrackedEntry.profits_taken)

\* C15: while a symbol's tracking exists a profit level is taken at most once:
\* profits_taken never holds a level twice, a call that fires a level fires
\* one that was not yet taken, the first in list order among the reached and
\* untaken ones, and marks only that one.
C15_LevelFiresOnce ==
    /\ \A s \in Symbols :
           \A i, j \in 1..Len(position_data[s].profits_taken) :
               i # j => position_data[s].profits_taken[i] #
                            position_data[s].profits_taken[j]
    /\ (/\ Called("TrailingStopWithPartialProfits", "should_execute")
        /\ strategyCall.partial_profit # NoAction)
       => LET fired == strategyCall.partial_profit.profit_pct
          IN  /\ strategyCall.partial_profit.action = "partial_close"
              /\ ~LevelTaken(fired)
              /\ LevelReached(fired)
              /\ \E k \in 1..Len(profit_levels) :
                     /\ profit_levels[k].percentage = fired
                     /\ \A j \in 1..(k - 1) :
                            \/ LevelTaken(profit_levels[j].percentage)
                            \/ ~LevelReached(profit_levels[j].percentage)
              /\ strategyCall.after.profits_taken =
                     Append(TrackedEntry.profits_taken, fired)
              /\ strategyCall.executed => strategyCall.action = strategyCall.partial_profit

C15_Witness ==
    /\ Called("TrailingStopWithPartialProfits", "should_execute")
    /\ strategyCall.before # NoTracking
    /\ strategyCall.before.profits_taken = <<5>>
    /\ strategyCall.partial_profit.action = "partial_close"
    /\ strategyCall.partial_profit.profit_pct = 10
    /\ strategyCall.after.profits_taken = <<5, 10>>

\* in the last call both the trailing-stop condition and a reached, untaken
\* profit level held
BothHold ==
    /\ \/ /\ TrailingCallOn("long")
          /\ strategyCall.ticker * 100 <=
                 strategyCall.observed.highest * (100 - trailing_distance_pct)
       \/ /\ TrailingCallOn("short")
          /\ strategyCall.ticker * 100 >=
                 strategyCall.observed.lowest * (100 + trailing_distance_pct)
    /\ \E k \in 1..Len(profit_levels) :
           /\ LevelReached(profit_levels[k].percentage)
           /\ ~LevelTaken(profit_levels[k].percentage)

\* C16: when the trailing-stop condition and a reached, untaken profit level
\* hold in the same evaluation, should_execute reports the trailing stop only:
\* no level is marked taken, the context gets no partial_profit, and execute
\* returns one action, close_position.
C16_TrailingStopFirst ==
    BothHold =>
        /\ StopFlagged
        /\ strategyCall.partial_profit = NoAction
        /\ ~strategyCall.executed =>
               strategyCall.after.profits_taken = TrackedEntry.profits_taken
        /\ strategyCall.executed =>
               /\ strategyCall.action.action = "close_position"
               /\ strategyCall.action.amount = 0
               /\ strategyCall.after = NoTracking

C16_Witness ==
    /\ BothHold
    /\ StopFlagged
    /\ strategyCall.executed
    /\ strategyCall.action.action = "close_position"

\* C17: StopAndReverse.execute on a position with side s and exit price E
\* (the position's last price) returns place_order_with_tp for the symbol, with
\* side sell and take_profit = E*(1 - tp_percentage/100) when s is long, side
\* buy and take_profit = E*(1 + tp_percentage/100) when s is short; with
\* E = 100.0 and 2% the prices are 98.0 and 102.0 (prices in tenths).
C17_ReverseWithTakeProfit ==
    (/\ Called("StopAndReverseStrategy", "execute")
     /\ strategyCall.symbol # ""
     /\ strategyCall.position # NoPosition
     /\ HasLastPrice(strategyCall.position))
    => LET E == strategyCall.position.last_price
           long == strategyCall.position.side = "long"
           a == strategyCall.action
       IN  /\ a.action = "place_order_with_tp"
           /\ a.symbol = strategyCall.symbol
           /\ long => /\ a.side = "sell"
                       /\ a.take_profit * 100 = E * (100 - tp_percentage)
           /\ ~long => /\ a.side = "buy"
                        /\ a.take_profit * 100 = E * (100 + tp_percentage)
           /\ (long /\ E = 1000) => a.take_profit = 980
           /\ (~long /\ E = 1000) => a.take_profit = 1020

C17_Witness ==
    /\ Called("StopAndReverseStrategy", "execute")
    /\ strategyCall.symbol = "BTC"
    /\ strategyCall.position # NoPosition
    /\ HasLastPrice(strategyCall.position)
    /\ strategyCall.position.side = "short"
    /\ strategyCall.position.last_price = 1000
    /\ strategyCall.action.side = "buy"
    /\ strategyCall.action.take_profit = 1020

\* C18: StopAndReverse.should_execute returns true iff the context has a
\* position, a symbol and stop_loss_hit = true; and a call of should_execute
\* or of execute leaves the state of the strategy instance as it was, so the
\* result is a function of the context alone.
C18_InstantAndStateless ==
    /\ Called("StopAndReverseStrategy", "should_execute") =>
           (strategyCall.result <=>
                /\ strategyCall.position # NoPosition
                /\ strategyCall.symbol # ""
                /\ strategyCall.stop_loss_hit)
    /\ strategyCall.strategy = "StopAndReverseStrategy" =>
           /\ strategyCall.after = strategyCall.before
           /\ stopped_positions = strategyCall.before
           /\ stopped_positions = [s \in Symbols |-> NoStopped]

C18_Witness ==
    /\ Called("StopAndReverseStrategy", "should_execute")
    /\ strategyCall.symbol = "ETH"
    /\ strategyCall.position # NoPosition
    /\ ~HasLastPrice(strategyCall.position)
    /\ strategyCall.stop_loss_hit
    /\ strategyCall.timestamp = 1
    /\ strategyCall.result

\* C19: place_order returns false, without raising, when the entry submission
\* raises or comes back empty, and nothing is submitted after it; when the
\* entry submission succeeds it returns true whatever the stop-loss and
\* take-profit chains that follow return, and everything it submits after the
\* entry is an attempt of those chains, a conditional order carrying a
\* stopPrice: no order cancels or reverses the entry.
C19_EntryDecidesResult ==
    lastOp.name = "place_order" =>
        /\ lastOp.result \in {"True", "False"}
        /\ lastOp.entry = "none" => (orderLog = <<>> /\ lastOp.result = "False")
        /\ lastOp.entry \in {"raise", "empty"} =>
               /\ lastOp.result = "False"
               /\ Len(orderLog) = 1
               /\ orderLog[1].role = "entry"
        /\ lastOp.entry = "ok" =>
               /\ lastOp.result = "True"
               /\ orderLog[1].role = "entry"
               /\ ~orderLog[1].raised
               /\ \A i \in 2..Len(orderLog) :
                      /\ orderLog[i].role \in {"stop_loss", "take_profit"}
                      /\ orderLog[i].params.stopPrice # 0

C19_Witness ==
    /\ lastOp.name = "place_order"
    /\ lastOp.entry = "ok"
    /\ lastOp.sl_result = "False"
    /\ lastOp.tp_result = "False"
    /\ lastOp.result = "True"
    /\ Len(orderLog) = 9

\* C20: close_position(symbol), when its lookup finds an open position of side
\* s and size n, submits exactly one market order of amount n for the symbol on
\* the side opposite to s (sell for long, buy for short) and returns true, or
\* false if that submission raises; when the lookup finds no position for the
\* symbol it submits no order and returns false.
C20_CloseIsOneOppositeOrder ==
    lastOp.name = "close_position" =>
        /\ lastOp.position # NoPosition =>
               /\ Len(orderLog) = 1
               /\ orderLog[1].symbol = lastOp.symbol
               /\ orderLog[1].type = "market"
               /\ orderLog[1].amount = lastOp.position.size
               /\ lastOp.position.side = "long" => orderLog[1].side = "sell"
               /\ lastOp.position.side = "short" => orderLog[1].side = "buy"
               /\ orderLog[1].raised => lastOp.result = "False"
               /\ ~orderLog[1].raised =>
                      /\ lastOp.result = "True"
                      /\ positions[lastOp.symbol] = NoPosition
        /\ lastOp.position = NoPosition =>
               /\ orderLog = <<>>
               /\ lastOp.result = "False"

C20_Witness ==
    /\ lastOp.name = "close_position"
    /\ lastOp.position # NoPosition
    /\ lastOp.position.side = "short"
    /\ lastOp.position.size = 2
    /\ Len(orderLog) = 1
    /\ orderLog[1].side = "buy"
    /\ orderLog[1].amount = 2
    /\ lastOp.result = "True"

\* ------------------------------------------------- claims: order book
\* the submissions of the last operation made for one role
Submitted(role) ==
    LET Is(o) == o.role = role
    IN  SelectSeq(orderLog, Is)

\* C21: set_position_sltp places each requested stop-loss and take-profit
\* through the fallback chain: when the first attempt for a requested stop-loss
\* (or take-profit) raises, the remaining spellings are attempted, so an attempt
\* that raised is followed by another attempt for the same order unless it was
\* the fourth.
C21_SltpThroughFallbackChain ==
    lastOp.name = "set_position_sltp" =>
        \A role \in {"stop_loss", "take_profit"} :
            (Submitted(role) # <<>> /\ Submitted(role)[1].raised)
                => Len(Submitted(role)) = 4

\* the open orders of a symbol that are stop-loss (take-profit) orders
OpenStopLosses(symbol) ==
    {i \in 1..Len(open_orders) :
        /\ open_orders[i].symbol = symbol
        /\ "stop" \in Tokens(open_orders[i].type)
        /\ "profit" \notin Tokens(open_orders[i].type)}

OpenTakeProfits(symbol) ==
    {i \in 1..Len(open_orders) :
        /\ open_orders[i].symbol = symbol
        /\ "take_profit" \in Tokens(open_orders[i].type)}

\* C22: after any sequence of set_position_sltp, place_order with risk
\* percentages and place_order_with_tp, each symbol has at most one open
\* stop-loss order and at most one open take-profit order.
C22_OneConditionalOrderPerKind ==
    \A s \in Symbols :
        /\ Cardinality(OpenStopLosses(s)) <= 1
        /\ Cardinality(OpenTakeProfits(s)) <= 1

\* the cancellation of set_position_sltp failed: the listing of the open
\* orders raised, or one of the cancel calls did
CancellationFailed ==
    \/ bookCall.orders_raise
    \/ \E i \in 1..Len(bookCall.cancels) : bookCall.cancels[i].raised

\* C23: in set_position_sltp on an open position, a failure while listing or
\* cancelling the existing conditional orders does not prevent the placement of
\* the requested orders: the requested stop-loss and the requested take-profit
\* are both submitted at their prices and the operation returns true.
C23_CancelFailureDoesNotBlock ==
    (/\ bookCall.name = "set_position_sltp"
     /\ ~bookCall.fetch_raises
     /\ positions[bookCall.symbol] # NoPosition
     /\ CancellationFailed)
    => /\ bookCall.result = "True"
       /\ bookCall.stop_loss_price # 0 =>
              /\ Len(Submitted("stop_loss")) = 1
              /\ Submitted("stop_loss")[1].params.stopPrice =
                     bookCall.stop_loss_price
       /\ bookCall.take_profit_price # 0 =>
              /\ Len(Submitted("take_profit")) = 1
              /\ Submitted("take_profit")[1].params.stopPrice =
                     bookCall.take_profit_price

C23_Witness ==
    /\ bookCall.name = "set_position_sltp"
    /\ \E i \in 1..Len(bookCall.cancels) : bookCall.cancels[i].raised
    /\ bookCall.stop_loss_price = 95
    /\ bookCall.take_profit_price = 105
    /\ Len(orderLog) = 2
    /\ ~orderLog[1].raised
    /\ bookCall.result = "True"

\* C24: cancel_order(order_id) takes the symbol from the locally tracked orders
\* when one of them has the id, and scans the exchange's open orders only when
\* none has; when neither holds the id it returns false and the gateway's
\* cancel is not called; it returns true or false, never raises.
C24_CancelResolvesLocallyFirst ==
    bookCall.name = "cancel_order" =>
        LET id == bookCall.order_id
            local == id \in Ids(bookCall.tracked)
            remote == id \in Ids(bookCall.before)
        IN  /\ bookCall.result \in {"True", "False"}
            /\ local => /\ ~bookCall.scanned
                        /\ Len(bookCall.cancels) = 1
                        /\ bookCall.cancels[1].symbol =
                               FindSymbol(bookCall.tracked, id)
            /\ ~local => bookCall.scanned
            /\ (~local /\ ~remote) => /\ bookCall.result = "False"
                                      /\ bookCall.cancels = <<>>
                                      /\ open_orders = bookCall.before
            /\ (~local /\ remote /\ ~bookCall.orders_raise) =>
                   /\ Len(bookCall.cancels) = 1
                   /\ bookCall.cancels[1].id = id

C24_Witness ==
    /\ bookCall.name = "cancel_order"
    /\ bookCall.order_id \in Ids(bookCall.tracked)
    /\ bookCall.order_id \in Ids(bookCall.before)
    /\ ~bookCall.scanned
    /\ bookCall.result = "True"
    /\ bookCall.order_id \notin Ids(open_orders)

\* --------------------------------------------------- claims: action routing

\* the action kinds a strategy's execute can return
ActionKinds ==
    {"place_order", "place_order_with_tp", "close_position", "partial_close",
     "close_all_positions"}

\* entry i of the tick's log is an execute of a bound strategy that returned
\* a non-empty action
ReturnedAction(i) ==
    /\ evalLog[i].kind = "eval"
    /\ evalLog[i].strategy \in BoundStrategies
    /\ evalLog[i].result
    /\ evalLog[i].action \in ActionKinds

\* C25: every non-empty action a bound strategy's execute returns during a
\* tick of the reconciliation loop is followed by exactly one routing of that
\* action kind for that symbol to the order executor; none is dropped, none
\* is routed twice
C25_EveryActionRoutedOnce ==
    \A i \in 1..Len(evalLog) :
        ReturnedAction(i) =>
            /\ i < Len(evalLog)
            /\ evalLog[i + 1] = Routed(evalLog[i].strategy, evalLog[i].symbol,
                                       evalLog[i].action)
            /\ i + 1 < Len(evalLog) => evalLog[i + 2].kind # "route"

\* ------------------------------------------- claims: position snapshot reader

ListingCall == bookCall.name = "get_open_positions"

\* the number of records of the returned listing that carry a symbol
RecordsOf(symbol) ==
    Cardinality({i \in 1..Len(bookCall.listing) :
                    bookCall.listing[i].symbol = symbol})

NoEmptyRecord ==
    \A i \in 1..Len(bookCall.listing) : bookCall.listing[i].size # 0

OneRecordPerHolding ==
    \A j \in 1..Len(bookCall.raw) :
        RecordsOf(bookCall.raw[j].symbol) =
            IF bookCall.raw[j].contracts = 0 THEN 0 ELSE 1

\* C27 as stated: get_open_positions returns no record of size 0, every raw
\* position with zero contracts is dropped and every raw position with
\* non-zero contracts yields exactly one record
C27_NonEmptyPositionsOnly ==
    ListingCall => NoEmptyRecord /\ OneRecordPerHolding

\* C27: get_open_positions returns no record of size 0 and drops every raw
\* position with zero contracts; every raw position with non-zero contracts
\* yields exactly one record when fetch_open_orders answers, and the listing
\* is empty when fetch_open_orders raises for a held position
C27_NonEmptyPositionsUnlessOrdersRaise ==
    ListingCall =>
        /\ NoEmptyRecord
        /\ ~bookCall.orders_raise => OneRecordPerHolding
        /\ bookCall.orders_raise => bookCall.listing = <<>>

C27_Witness ==
    /\ ListingCall
    /\ ~bookCall.orders_raise
    /\ \E j \in 1..Len(bookCall.raw) : bookCall.raw[j].contracts = 0
    /\ \E j \in 1..Len(bookCall.raw) : bookCall.raw[j].contracts # 0
    /\ Len(bookCall.listing) = 1

StopLossCandidate(order) ==
    "stop" \in Tokens(order.type) /\ "profit" \notin Tokens(order.type)

TakeProfitCandidate(order) == "take_profit" \in Tokens(order.type)

\* the orders of a symbol in the book the call scanned, in scan order
Scanned(symbol) ==
    LET Mine(o) == o.symbol = symbol
    IN  SelectSeq(bookCall.before, Mine)

\* the trigger price of the last order of a list, 0 (None) for an empty list
LastTrigger(list) == IF list = <<>> THEN 0 ELSE list[Len(list)].stopPrice

\* C29: no open order is both a stop-loss candidate and a take-profit
\* candidate, and the sl_price / tp_price of a returned record is the trigger
\* price of the last candidate of that kind among the symbol's open orders in
\* scan order
C29_LastCandidateWins ==
    ListingCall =>
        \A i \in 1..Len(bookCall.listing) :
            LET scanned == Scanned(bookCall.listing[i].symbol)
            IN  /\ \A k \in 1..Len(scanned) :
                       ~(StopLossCandidate(scanned[k])
                             /\ TakeProfitCandidate(scanned[k]))
                /\ bookCall.listing[i].sl_price =
                       LastTrigger(SelectSeq(scanned, StopLossCandidate))
                /\ bookCall.listing[i].tp_price =
                       LastTrigger(SelectSeq(scanned, TakeProfitCandidate))

C29_Witness ==
    /\ ListingCall
    /\ \E i \in 1..Len(bookCall.listing) :
          LET candidates == SelectSeq(Scanned(bookCall.listing[i].symbol),
                                      StopLossCandidate)
          IN  /\ Len(candidates) = 2
              /\ candidates[1].stopPrice # candidates[2].stopPrice
              /\ bookCall.listing[i].sl_price = candidates[2].stopPrice

\* ------------------------------------------------- claims: risk prices

\* place_order returned true with risk percentages and read the position back
RiskPricesComputed ==
    /\ lastOp.name = "place_order"
    /\ lastOp.result = "True"
    /\ lastOp.stop_loss_pct # 0 \/ lastOp.take_profit_pct # 0
    /\ lastOp.position # NoPosition

\* price is entry_price moved by pct percent, up or down
MovedBy(price, entry_price, pct, up) ==
    price * 100 = entry_price * (IF up THEN 100 + pct ELSE 100 - pct)

\* C28: when place_order succeeds with risk percentages and reads the
\* position back, every stop-loss and take-profit order it submits carries the
\* price computed from the entry price read back: for a long position
\* SL = entry*(1 - sl%/100) and TP = entry*(1 + tp%/100), for a short one
\* SL = entry*(1 + sl%/100) and TP = entry*(1 - tp%/100)
C28_RiskPricesFromReadBackEntry ==
    RiskPricesComputed =>
        LET long == lastOp.position.side = "long"
            entry_price == lastOp.position.entry_price
        IN  /\ lastOp.stop_loss_pct # 0 => Submitted("stop_loss") # <<>>
            /\ lastOp.take_profit_pct # 0 => Submitted("take_profit") # <<>>
            /\ \A k \in 1..Len(Submitted("stop_loss")) :
                   MovedBy(Submitted("stop_loss")[k].params.stopPrice,
                           entry_price, lastOp.stop_loss_pct, ~long)
            /\ \A k \in 1..Len(Submitted("take_profit")) :
                   MovedBy(Submitted("take_profit")[k].params.stopPrice,
                           entry_price, lastOp.take_profit_pct, long)

\* a limit order asked at 90 whose position reads back at 100
C28_Witness ==
    /\ RiskPricesComputed
    /\ lastOp.price # 0
    /\ lastOp.price # lastOp.position.entry_price
    /\ lastOp.position.side = "short"
    /\ Submitted("stop_loss") # <<>>
    /\ Submitted("take_profit") # <<>>

\* ------------------------------------------------- claims: record order

SortedByTimestamp(events) ==
    \A i, j \in 1..Len(events) :
        i < j => events[i].timestamp <= events[j].timestamp

\* the last k records of a list
LastRecords(events, k) == SubSeq(events, Len(events) - k + 1, Len(events))

\* the records of the list before the call that are still in the list after it
Survivors ==
    IF lastCall.hit /\ stop_loss_events # <<>>
    THEN SubSeq(stop_loss_events, 1, Len(stop_loss_events) - 1)
    ELSE stop_loss_events

\* C30: the ThreeStrike record list is sorted by non-decreasing timestamp in
\* every reachable state, and a pruning call removes only a prefix of the
\* list: what survives of the earlier list is its tail, and a record appended
\* by the call comes after it
C30_SortedAndPrefixPruned ==
    /\ SortedByTimestamp(stop_loss_events)
    /\ PruningCall =>
          /\ Len(Survivors) <= Len(lastCall.before)
          /\ Survivors = LastRecords(lastCall.before, Len(Survivors))
          /\ (lastCall.hit /\ stop_loss_events # <<>>) =>
                 stop_loss_events[Len(stop_loss_events)].timestamp = lastCall.time

C30_Witness ==
    /\ PruningCall
    /\ Len(lastCall.before) >= 2
    /\ Survivors # <<>>
    /\ Len(Survivors) < Len(lastCall.before)
    /\ stop_loss_events[1].timestamp
           < stop_loss_events[Len(stop_loss_events)].timestamp

\* ------------------------------------------------- claims: gateway failures

\* a gateway call of the operation raised: an order submission, or the
\* listing of the positions
GatewayRaised ==
    \/ \E i \in 1..Len(orderLog) : orderLog[i].raised
    \/ lastOp.list_raises

\* C26: whenever a gateway call raises during place_order, close_position,
\* close_all_positions or set_position_sltp the operation returns false, and
\* a listing whose fetch raises is empty
C26_GatewayFailureReturnsFalse ==
    /\ (lastOp.name \in {"place_order", "close_position", "close_all_positions",
                         "set_position_sltp"}
            /\ GatewayRaised) => lastOp.result = "False"
    /\ (lastOp.name = "close_all_positions" /\ lastOp.list_raises) =>
           lastOp.listed = <<>>

\* ------------------------------------------------- claims: tracking restart

\* the last call was a should_execute on an open position whose price was
\* read, the first one since execute removed the symbol's tracking on a
\* trailing stop
FirstCallAfterStop ==
    /\ Called("TrailingStopWithPartialProfits", "should_execute")
    /\ strategyCall.after_stop
    /\ strategyCall.position # NoPosition
    /\ strategyCall.ticker # 0

\* C31: execute in the trailing-stop case removes the symbol's tracking; the
\* next should_execute for the symbol on an open position begins a new
\* tracking from the context's position with the watermark at the current
\* price and no level taken before the call, and reports no trailing stop
C31_StopRestartsTracking ==
    /\ (/\ Called("TrailingStopWithPartialProfits", "should_execute")
        /\ strategyCall.trailing_stop_hit
        /\ strategyCall.executed)
       => /\ strategyCall.after = NoTracking
          /\ position_data[strategyCall.symbol] = NoTracking
    /\ \A s \in Symbols : observed[s].stopped => position_data[s] = NoTracking
    /\ FirstCallAfterStop =>
          /\ strategyCall.before = NoTracking
          /\ ~strategyCall.trailing_stop_hit
          /\ strategyCall.after # NoTracking
          /\ strategyCall.after.side = strategyCall.position.side
          /\ strategyCall.after.entry_price = strategyCall.position.entry_price
          /\ strategyCall.position.side = "long" =>
                 strategyCall.after.highest_price = strategyCall.ticker
          /\ strategyCall.position.side = "short" =>
                 strategyCall.after.lowest_price = strategyCall.ticker
          /\ strategyCall.after.profits_taken =
                 IF strategyCall.partial_profit = NoAction THEN <<>>
                 ELSE <<strategyCall.partial_profit.profit_pct>>

\* a restart on a long position at 100.0: the watermark is 100.0 and the
\* call answers false
C31_Witness ==
    /\ FirstCallAfterStop
    /\ strategyCall.position.side = "long"
    /\ strategyCall.ticker = 1000
    /\ strategyCall.after.highest_price = 1000
    /\ ~strategyCall.result

\* ------------------------------------------------- claims: order with take-profit

\* C32: place_order_with_tp places the main order; when the entry succeeds, a
\* position is found and a take_profit price is given, it submits exactly one
\* take-profit order with stopPrice = take_profit on the side opposite to the
\* position and returns the order; it returns None only when the main order
\* failed
C32_TakeProfitFollowsEntry ==
    lastOp.name = "place_order_with_tp" =>
        /\ (/\ lastOp.entry = "ok"
            /\ lastOp.position # NoPosition
            /\ lastOp.take_profit # 0)
           => /\ Len(Submitted("take_profit")) = 1
              /\ Submitted("take_profit")[1].params.stopPrice = lastOp.take_profit
              /\ Submitted("take_profit")[1].side =
                     ClosingSide(lastOp.position.side)
        /\ lastOp.result = "None" => lastOp.entry # "ok"

\* ------------------------------------------------- claims: position mode

\* C33: set_position_mode returns true when the gateway accepts the change
\* and when it rejects it with a message containing 'No need to change', and
\* false for every other rejection; it always returns a boolean
C33_NoNeedToChangeIsSuccess ==
    lastOp.name = "set_position_mode" =>
        /\ lastOp.result \in {"True", "False"}
        /\ lastOp.result = "True" <=> lastOp.outcome \in {"ok", "no_need"}

C33_Witness ==
    /\ lastOp.name = "set_position_mode"
    /\ lastOp.outcome = "no_need"
    /\ lastOp.result = "True"
    /\ lastOp.hedge = hedgeMode

\* ------------------------------------------------- claims: two workers

BothReturned == \A w \in Workers : workers[w].pc = "done"

\* the record worker w's call appended
AppendedBy(w) == StrikeRecord(WorkerContext(w, TRUE, workers[w].timestamp))

\* inside the time window at the clock either call read
InsideForBoth(record) ==
    \A v \in Workers : KeepEvent(record, workers[v].current_time)

\* C34: when two workers' should_execute calls interleave, the record list
\* after both calls holds every record either call appended that is inside
\* the time window
C34_NoRecordLostBetweenWorkers ==
    BothReturned =>
        \A w \in Workers :
            (workers[w].hit /\ InsideForBoth(AppendedBy(w))) =>
                AppendedBy(w) \in Range(stop_loss_events)

\* ------------------------------------------------- claims: breaker stays on

\* the records the list held before the call that are inside the window at
\* the call
CountedBefore ==
    Cardinality({i \in 1..Len(lastCall.before) :
                    KeepEvent(lastCall.before[i], lastCall.time)})

\* C35: the breaker does not reset itself: execute returns
\* close_all_positions and leaves the record list as it was, a should_execute
\* that returns true leaves at least strike_limit records, and every
\* evaluation that finds at least strike_limit records still inside the window
\* returns true, whether or not execute ran before it
C35_BreakerStaysOn ==
    /\ lastCall.op = "execute" =>
           /\ stop_loss_events = lastCall.before
           /\ lastCall.action = "close_all_positions"
    /\ lastCall.op = "should_execute" =>
           /\ lastCall.result => Len(stop_loss_events) >= strike_limit
           /\ CountedBefore >= strike_limit => lastCall.result

\* an evaluation without a new stop-loss, right after execute, answers true
C35_Witness ==
    /\ lastCall.op = "should_execute"
    /\ lastCall.after_execute
    /\ ~lastCall.hit
    /\ lastCall.result
    /\ CountedBefore < Len(lastCall.before)

\* ------------------------------------------- claims: close-all is complete

\* a close order for the symbol was accepted by the gateway during the call
CloseSubmitted(symbol) ==
    \E j \in 1..Len(orderLog) :
        /\ orderLog[j].symbol = symbol
        /\ orderLog[j].role = "close"
        /\ ~orderLog[j].raised

\* C36: when close_all_positions returns true, a close order was accepted
\* for every position that was open on the exchange at the call (so it is not
\* true when positions are open and their listing failed)
C36_TrueMeansEveryPositionClosed ==
    (lastOp.name = "close_all_positions" /\ lastOp.result = "True") =>
        \A i \in 1..Len(lastOp.open_before) :
            CloseSubmitted(lastOp.open_before[i])

\* ------------------------------------- claims: strategies need a position

\* the symbols whose position was open on the exchange when the tick began
OpenAtTick == {lastOp.open_before[i] : i \in 1..Len(lastOp.open_before)}

\* the symbols a strategy was evaluated, executed or routed for in the tick
TouchedInTick == {evalLog[i].symbol : i \in 1..Len(evalLog)}

\* the symbol has a MarketReversalStrategy record
HasReversalRecord(symbol) ==
    \E i \in 1..Len(position_strategies) :
        /\ position_strategies[i].symbol = symbol
        /\ \E j \in 1..Len(position_strategies[i].strategies) :
               position_strategies[i].strategies[j] = "MarketReversalStrategy"

\* C37: a reconciliation tick evaluates, executes and routes strategies only
\* for symbols whose position was open (size not zero) when the tick began; a
\* symbol without a position is skipped whatever strategies are recorded for
\* it
C37_OnlyOpenPositionsEvaluated ==
    TickOp => TouchedInTick \subseteq OpenAtTick

\* a tick that evaluated one symbol and skipped another that has a
\* MarketReversalStrategy record but no position
C37_Witness ==
    /\ lastOp.name = "check_strategies"
    /\ TouchedInTick # {}
    /\ \E symbol \in Symbols :
          /\ HasReversalRecord(symbol)
          /\ symbol \notin OpenAtTick
          /\ symbol \notin TouchedInTick

\* ------------------------------------- claims: levels marked at evaluation

\* the last call evaluated TrailingStopWithPartialProfits
TrailingCall == Called("TrailingStopWithPartialProfits", "should_execute")

\* the profit levels marked taken in a tracking entry
TakenIn(tracking) == Range(tracking.profits_taken)

\* C38: a profit level is marked taken by should_execute itself: the level a
\* call offers is in profits_taken after the call whether or not execute ran;
\* while the tracking exists no marked level is unmarked, and a level that was
\* offered and not executed stays marked and is not offered again
C38_LevelMarkedAtEvaluation ==
    TrailingCall =>
        /\ strategyCall.partial_profit # NoAction =>
               /\ strategyCall.after # NoTracking
               /\ strategyCall.partial_profit.profit_pct
                      \in TakenIn(strategyCall.after)
               /\ strategyCall.partial_profit.profit_pct
                      \notin strategyCall.observed.dropped
        /\ (strategyCall.before # NoTracking /\ strategyCall.after # NoTracking) =>
               TakenIn(strategyCall.before) \subseteq TakenIn(strategyCall.after)
        /\ strategyCall.after # NoTracking =>
               strategyCall.observed.dropped \subseteq TakenIn(strategyCall.after)

\* the 5% level was offered earlier and its execute never ran; the price
\* reaches the level again and the call offers nothing
C38_Witness ==
    /\ TrailingCall
    /\ 5 \in strategyCall.observed.dropped
    /\ LevelReached(5)
    /\ ~LevelReached(10)
    /\ ~strategyCall.result
    /\ strategyCall.partial_profit = NoAction
    /\ 5 \in TakenIn(strategyCall.after)

\* ------------------------------------------ claims: watermark of tracking

\* the last call left a tracking entry whose stored side is this one, after a
\* fetched price on an open position
TrackedAfter(side) ==
    /\ TrailingCall
    /\ strategyCall.position # NoPosition
    /\ strategyCall.ticker # 0
    /\ strategyCall.after # NoTracking
    /\ strategyCall.after.side = side

\* a call on an existing tracking entry leaves its watermarks no worse and
\* its entry_price and side as they were
WatermarkKept ==
    (/\ TrailingCall
     /\ strategyCall.before # NoTracking
     /\ strategyCall.after # NoTracking)
    => /\ strategyCall.after.highest_price >= strategyCall.before.highest_price
       /\ strategyCall.after.lowest_price <= strategyCall.before.lowest_price
       /\ strategyCall.after.entry_price = strategyCall.before.entry_price
       /\ strategyCall.after.side = strategyCall.before.side

\* C39: while a symbol's tracking exists, highest_price of a long tracking
\* never decreases and equals the highest price observed since tracking
\* began, lowest_price of a short tracking never increases and equals the
\* lowest price observed, and entry_price and side stay as first stored
C39_WatermarkIsBestObserved ==
    /\ WatermarkKept
    /\ TrackedAfter("long") =>
           strategyCall.after.highest_price = strategyCall.observed.highest
    /\ TrackedAfter("short") =>
           strategyCall.after.lowest_price = strategyCall.observed.lowest

\* as long as every observation since tracking began was of a position of
\* the stored side, the watermark is the best price observed
WatermarkOnOneSide ==
    /\ (TrackedAfter("long") /\ strategyCall.observed.sides = {"long"}) =>
           strategyCall.after.highest_price = strategyCall.observed.highest
    /\ (TrackedAfter("short") /\ strategyCall.observed.sides = {"short"}) =>
           strategyCall.after.lowest_price = strategyCall.observed.lowest

\* --------------------------------------- claims: cancel and local tracking

\* C40: cancel_order takes the order out of the locally tracked orders, and
\* returns true, exactly when the gateway's cancel returned a truthy result;
\* when the symbol is not found, the gateway raises or its result is falsy,
\* the tracked list is as it was and the call returns false
C40_UntrackedIffCancelled ==
    bookCall.name = "cancel_order" =>
        IF bookCall.outcome = "ok"
        THEN /\ orders = Without(bookCall.tracked, {bookCall.order_id})
             /\ bookCall.order_id \notin Ids(orders)
             /\ bookCall.result = "True"
        ELSE /\ orders = bookCall.tracked
             /\ bookCall.result = "False"

\* a tracked order the gateway cancelled is gone from the tracked list
C40_Witness ==
    /\ bookCall.name = "cancel_order"
    /\ bookCall.outcome = "ok"
    /\ bookCall.order_id \in Ids(bookCall.tracked)
    /\ bookCall.order_id \notin Ids(orders)
    /\ orders # bookCall.tracked

====
